---- MODULE Spec2Model ----
(***************************************************************************)
(* Model of the bucketed market-data cache: Bucket (types/bucket.rs),      *)
(* MarketDataCache (types/market_data.rs) and find_bucket_index (utils.rs).*)
(* Timestamps are naturals, spreads are small integers standing for the    *)
(* finite f64 values the loader admits; F64_MAX stands for f64::MAX.       *)
(* Rust indices are 0-based, TLA+ sequences 1-based: buckets[i] of the     *)
(* source is buckets[i + 1] here.                                          *)
(***************************************************************************)
EXTENDS Integers, Sequences, FiniteSets, TLC

VARIABLES
    buckets,      \* MarketDataCache.buckets: the deque of Bucket records
    bucket_ns,    \* MarketDataCache.bucket_ns
    num_buckets,  \* MarketDataCache.num_buckets
    count,        \* MarketDataCache.count (the atomic counter)
    aborted,      \* TRUE once an operation has panicked
    op,           \* the last call that changed the cache or panicked ("new" at first)
    arg,          \* the timestamp or threshold of the last insert / remove_up_to
    ret,          \* the value the last call returned, 0 if none or if it panicked
    pre_start,    \* Some(buckets[0].start_time_ns) when that call began, None if
                  \* the cache held no buckets then
    pre_count,    \* count when that call began
    bucket,       \* a Bucket used on its own (outside a cache), None if there is none
    pre_bucket,   \* that bucket when the last call on it began
    writers,      \* the writer threads sharing the cache, None if there are none:
                  \* pending = the timestamps still to insert, done = those whose
                  \* insert was called, stored = the number of inserts that
                  \* have stored their sample, horizon_end = the end of the
                  \* horizon when the threads started
    threads       \* the threads that run a call in several steps (a slide, a
                  \* lazy sketch build, a fan-out over buckets), None where
                  \* every call is one step

vars == <<buckets, bucket_ns, num_buckets, count, aborted,
          op, arg, ret, pre_start, pre_count, bucket, pre_bucket, writers,
          threads>>

----------------------------------------------------------------------------
(* Bounds of the model. *)

MaxTs == 7          \* timestamps and thresholds are drawn from 0..MaxTs
MaxSpreadValue == 2 \* spreads are drawn from 1..MaxSpreadValue
MaxCount == 2       \* insert is called only while count < MaxCount
MaxWriters == 3     \* at most MaxWriters writer threads share a cache

(* f64::MAX, the sentinel of an empty bucket; larger than every spread. *)
F64_MAX == 1000000

\* The caches constructed: new(num_buckets, bucket_ns) for these arguments.
NewArguments == {<<1, 2>>, <<2, 2>>, <<3, 2>>, <<2, 3>>}

Timestamps == 0..MaxTs
Spreads == 1..MaxSpreadValue

----------------------------------------------------------------------------
(* Helpers for f64 and Option. *)

None == <<>>
Some(x) == <<x>>
unwrap(o) == o[1]

f64_min2(a, b) == IF a <= b THEN a ELSE b
f64_max2(a, b) == IF a >= b THEN a ELSE b

Range(s) == {s[i] : i \in DOMAIN s}

\* utils::f64_min / f64_max on a non-empty array (the callers unwrap).
f64_min(array) == CHOOSE x \in Range(array) : \A y \in Range(array) : x <= y
f64_max(array) == CHOOSE x \in Range(array) : \A y \in Range(array) : x >= y

\* entries.iter().map(|e| e.spread).collect()
SpreadsOf(entries) == [i \in DOMAIN entries |-> entries[i].spread]

RECURSIVE RetainFromThreshold(_, _)
\* Retain as it would be if the closure compared with >=.
RetainFromThreshold(entries, threshold) ==
    IF entries = <<>> THEN <<>>
    ELSE IF Head(entries).utc_epoch_ns >= threshold
         THEN <<Head(entries)>> \o RetainFromThreshold(Tail(entries), threshold)
         ELSE RetainFromThreshold(Tail(entries), threshold)

RECURSIVE Retain(_, _)
\* Vec::retain(|entry| entry.utc_epoch_ns > threshold), order preserved.
Retain(entries, threshold) ==
    IF entries = <<>> THEN <<>>
    ELSE IF Head(entries).utc_epoch_ns > threshold
         THEN <<Head(entries)>> \o Retain(Tail(entries), threshold)
         ELSE Retain(Tail(entries), threshold)

RECURSIVE FilterFrom(_, _)
\* entries.iter().filter(|entry| entry.utc_epoch_ns >= threshold)
FilterFrom(entries, threshold) ==
    IF entries = <<>> THEN <<>>
    ELSE IF Head(entries).utc_epoch_ns >= threshold
         THEN <<Head(entries)>> \o FilterFrom(Tail(entries), threshold)
         ELSE FilterFrom(Tail(entries), threshold)

RECURSIVE FilterToBefore(_, _)
\* FilterTo as it would be if the closure compared with <.
FilterToBefore(entries, threshold) ==
    IF entries = <<>> THEN <<>>
    ELSE IF Head(entries).utc_epoch_ns < threshold
         THEN <<Head(entries)>> \o FilterToBefore(Tail(entries), threshold)
         ELSE FilterToBefore(Tail(entries), threshold)

RECURSIVE FilterTo(_, _)
\* entries.iter().filter(|entry| entry.utc_epoch_ns <= threshold)
FilterTo(entries, threshold) ==
    IF entries = <<>> THEN <<>>
    ELSE IF Head(entries).utc_epoch_ns <= threshold
         THEN <<Head(entries)>> \o FilterTo(Tail(entries), threshold)
         ELSE FilterTo(Tail(entries), threshold)

----------------------------------------------------------------------------
(* utils.rs *)

find_bucket_indexRoundsUp(first_bucket_start_ns, query_ns, bucket_duration_ns) ==
    IF query_ns < first_bucket_start_ns
    THEN None
    ELSE Some((query_ns - first_bucket_start_ns + bucket_duration_ns - 1)
                  \div bucket_duration_ns)

find_bucket_index(first_bucket_start_ns, query_ns, bucket_duration_ns) ==
    IF query_ns < first_bucket_start_ns
    THEN None
    ELSE Some((query_ns - first_bucket_start_ns) \div bucket_duration_ns)

----------------------------------------------------------------------------
(* types/bucket.rs *)

\* RefCell::new(None): the lazily built sketch is absent.
NoDigest == [present |-> FALSE, spreads |-> <<>>]

\* Bucket_new as it would be with the aggregates of Bucket::default().
Bucket_newZeroed(start_time_ns, end_time_ns) ==
    [start_time_ns |-> start_time_ns,
     end_time_ns   |-> end_time_ns,
     count         |-> 0,
     tdigest       |-> NoDigest,
     min_spread    |-> 0,
     max_spread    |-> 0,
     entries       |-> <<>>]

Bucket_new(start_time_ns, end_time_ns) ==
    [start_time_ns |-> start_time_ns,
     end_time_ns   |-> end_time_ns,
     count         |-> 0,
     tdigest       |-> NoDigest,
     min_spread    |-> F64_MAX,
     max_spread    |-> -F64_MAX,
     entries       |-> <<>>]

\* Bucket_insert as it would be if it never raised max_spread.
Bucket_insertMinOnly(b, e) ==
    IF ~(b.start_time_ns <= e.utc_epoch_ns /\ e.utc_epoch_ns < b.end_time_ns)
    THEN [ok |-> FALSE, bucket |-> b]
    ELSE [ok |-> TRUE,
          bucket |-> [b EXCEPT !.tdigest = NoDigest,
                               !.count = b.count + 1,
                               !.min_spread = f64_min2(b.min_spread, e.spread),
                               !.entries = Append(b.entries, e)]]

\* Bucket_insert as it would be if it accepted utc_epoch_ns = end_time_ns.
Bucket_insertClosed(b, e) ==
    IF ~(b.start_time_ns <= e.utc_epoch_ns /\ e.utc_epoch_ns <= b.end_time_ns)
    THEN [ok |-> FALSE, bucket |-> b]
    ELSE [ok |-> TRUE,
          bucket |-> [b EXCEPT !.tdigest = NoDigest,
                               !.count = b.count + 1,
                               !.min_spread = f64_min2(b.min_spread, e.spread),
                               !.max_spread = f64_max2(b.max_spread, e.spread),
                               !.entries = Append(b.entries, e)]]

\* Bucket_insert as it would be if it left the sketch in place.
Bucket_insertKeepsDigest(b, e) ==
    IF ~(b.start_time_ns <= e.utc_epoch_ns /\ e.utc_epoch_ns < b.end_time_ns)
    THEN [ok |-> FALSE, bucket |-> b]
    ELSE [ok |-> TRUE,
          bucket |-> [b EXCEPT !.count = b.count + 1,
                               !.min_spread = f64_min2(b.min_spread, e.spread),
                               !.max_spread = f64_max2(b.max_spread, e.spread),
                               !.entries = Append(b.entries, e)]]

\* Bucket::insert: [ok |-> the returned bool, bucket |-> the bucket afterwards].
Bucket_insert(b, e) ==
    IF ~(b.start_time_ns <= e.utc_epoch_ns /\ e.utc_epoch_ns < b.end_time_ns)
    THEN [ok |-> FALSE, bucket |-> b]
    ELSE [ok |-> TRUE,
          bucket |-> [b EXCEPT !.tdigest = NoDigest,
                               !.count = b.count + 1,
                               !.min_spread = f64_min2(b.min_spread, e.spread),
                               !.max_spread = f64_max2(b.max_spread, e.spread),
                               !.entries = Append(b.entries, e)]]

\* Bucket_remove_up_to as it would be if it kept the old min_spread, max_spread.
Bucket_remove_up_toStaleExtrema(b, threshold) ==
    IF threshold < b.start_time_ns \/ threshold > b.end_time_ns
    THEN [removed |-> 0, bucket |-> b]
    ELSE LET kept == Retain(b.entries, threshold)
         IN [removed |-> b.count - Len(kept),
             bucket |-> [b EXCEPT !.entries = kept,
                                  !.count = Len(kept),
                                  !.tdigest = NoDigest]]

\* Bucket::remove_up_to: [removed |-> the returned usize, bucket |-> afterwards].
\* Every spread of the model is finite, so the is_finite filter keeps them all.
Bucket_remove_up_to(b, threshold) ==
    IF threshold < b.start_time_ns \/ threshold > b.end_time_ns
    THEN [removed |-> 0, bucket |-> b]
    ELSE LET kept == Retain(b.entries, threshold)
             spreads == SpreadsOf(kept)
         IN [removed |-> b.count - Len(kept),
             bucket |-> [b EXCEPT
                 !.entries = kept,
                 !.count = Len(kept),
                 !.min_spread = IF Len(kept) > 0 THEN f64_min(spreads) ELSE F64_MAX,
                 !.max_spread = IF Len(kept) > 0 THEN f64_max(spreads) ELSE -F64_MAX,
                 !.tdigest = NoDigest]]

get_start_from(b, threshold) ==
    IF b.start_time_ns <= threshold /\ threshold <= b.end_time_ns
    THEN FilterFrom(b.entries, threshold)
    ELSE <<>>

count_start_from(b, threshold) == Len(get_start_from(b, threshold))

get_end_before(b, threshold) ==
    IF b.start_time_ns <= threshold /\ threshold <= b.end_time_ns
    THEN FilterTo(b.entries, threshold)
    ELSE <<>>

count_end_before(b, threshold) == Len(get_end_before(b, threshold))

\* TDigest::new_with_size(100).merge_unsorted(values): the sketch is a function
\* of the values in ascending order and is represented by them.
merge_unsorted(values) == SortSeq(values, LAMBDA a, b : a < b)

\* Bucket::get_tdigest: [digest |-> the returned TDigest, bucket |-> afterwards].
\* The stored sketch is returned if there is one; else it is built from the
\* spreads of the entries, stored and returned.
get_tdigest(b) ==
    IF b.tdigest.present
    THEN [digest |-> b.tdigest.spreads, bucket |-> b]
    ELSE LET digest == merge_unsorted(SpreadsOf(b.entries))
         IN [digest |-> digest,
             bucket |-> [b EXCEPT !.tdigest = [present |-> TRUE, spreads |-> digest]]]

----------------------------------------------------------------------------
(* types/market_data.rs *)

\* Result of a cache operation that changes the cache: panicked tells whether
\* it unwound from a panic, buckets and count are the fields as it left them.
Outcome(p, bs, cnt, r) == [panicked |-> p, buckets |-> bs, count |-> cnt, ret |-> r]

RECURSIVE PopExpired(_, _, _)
\* remove_up_to, the first loop: pop every head bucket that ends at or before
\* `time`; front().unwrap() panics once the deque is empty.
PopExpired(bs, cnt, time) ==
    IF Head(bs).end_time_ns <= time
    THEN LET rest == Tail(bs)
             cnt2 == cnt - Head(bs).count
         IN IF rest = <<>>
            THEN [panicked |-> TRUE, buckets |-> rest, count |-> cnt2]
            ELSE PopExpired(rest, cnt2, time)
    ELSE [panicked |-> FALSE, buckets |-> bs, count |-> cnt]

RECURSIVE RefillFromStart(_, _, _)
\* Refill as it would be if it read the last bucket's start_time_ns.
RefillFromStart(bs, N, W) ==
    IF Len(bs) < N
    THEN LET last_start == bs[Len(bs)].start_time_ns
         IN RefillFromStart(Append(bs, Bucket_new(last_start, last_start + W)), N, W)
    ELSE bs

RECURSIVE RefillAfterGap(_, _, _)
\* Refill as it would be if a bucket's end were its last timestamp, the next
\* bucket starting one past it.
RefillAfterGap(bs, N, W) ==
    IF Len(bs) < N
    THEN LET last_end == bs[Len(bs)].end_time_ns
         IN RefillAfterGap(Append(bs, Bucket_new(last_end + 1, last_end + 1 + W)), N, W)
    ELSE bs

RECURSIVE Refill(_, _, _)
\* remove_up_to, the last loop: push empty buckets until there are N again.
Refill(bs, N, W) ==
    IF Len(bs) < N
    THEN LET last_end == bs[Len(bs)].end_time_ns
         IN Refill(Append(bs, Bucket_new(last_end, last_end + W)), N, W)
    ELSE bs

\* remove_up_to as it would be if it returned the count left instead of the
\* number removed.
remove_up_toReturnsCount(bs, cnt, N, W, time) ==
    IF bs = <<>>
    THEN Outcome(TRUE, bs, cnt, 0)
    ELSE LET popped == PopExpired(bs, cnt, time)
         IN IF popped.panicked
            THEN Outcome(TRUE, popped.buckets, popped.count, 0)
            ELSE LET purged == Bucket_remove_up_to(Head(popped.buckets), time)
                     bs2 == <<purged.bucket>> \o Tail(popped.buckets)
                     cnt2 == popped.count - purged.removed
                 IN Outcome(FALSE, Refill(bs2, N, W), cnt2, cnt2)

\* MarketDataCache::remove_up_to on a cache with fields bs, cnt, N, W.
remove_up_to(bs, cnt, N, W, time) ==
    IF bs = <<>>
    THEN Outcome(TRUE, bs, cnt, 0)          \* self.buckets[0] out of bounds
    ELSE LET popped == PopExpired(bs, cnt, time)
         IN IF popped.panicked
            THEN Outcome(TRUE, popped.buckets, popped.count, 0)
            ELSE LET purged == Bucket_remove_up_to(Head(popped.buckets), time)
                     bs2 == <<purged.bucket>> \o Tail(popped.buckets)
                     cnt2 == popped.count - purged.removed
                 IN Outcome(FALSE, Refill(bs2, N, W), cnt2, cnt - cnt2)

\* InitBuckets as it would be if the first bucket started at the sample.
InitBucketsUnaligned(N, W, ts) ==
    [i \in 1..N |-> Bucket_new(ts + W * (i - 1), ts + W * i)]

\* insert, lines 125-136: the first insert materializes the N buckets.
InitBuckets(N, W, ts) ==
    LET aligned_start_time_ns == ts - (ts % W)
    IN [i \in 1..N |-> Bucket_new(aligned_start_time_ns + W * (i - 1),
                                  aligned_start_time_ns + W * i)]

\* insert, lines 153-160: the slide performed when bucket_idx >= buckets.len().
Slide(bs, cnt, N, W, first_bucket_start_ns, bucket_idx) ==
    IF bucket_idx >= Len(bs)
    THEN remove_up_to(bs, cnt, N, W,
                      first_bucket_start_ns + W * (bucket_idx + 1) - N * W)
    ELSE Outcome(FALSE, bs, cnt, 0)

\* insert, lines 161-172: recompute the index and store into that bucket.
Store(bs, cnt, W, data) ==
    LET idx == find_bucket_index(bs[1].start_time_ns, data.utc_epoch_ns, W)
    IN IF idx = None \/ unwrap(idx) >= Len(bs)
       THEN Outcome(TRUE, bs, cnt, 0)       \* unwrap of None, or out of bounds
       ELSE Outcome(FALSE,
                    [bs EXCEPT ![unwrap(idx) + 1] =
                        Bucket_insert(bs[unwrap(idx) + 1], data).bucket],
                    cnt, 0)

\* CountOnEntry as it would be if the counter were bumped twice.
CountOnEntryTwice(cnt) == cnt + 2

\* CountOnEntry as it would be if the fetch_add were missing.
CountOnEntryForgotten(cnt) == cnt

\* insert, line 138: the counter is bumped before the bucket is looked up.
CountOnEntry(cnt) == cnt + 1

\* insert as it would be if a sample older than the window moved the window
\* back to it instead of being dropped.
insertRebasing(bs, cnt, N, W, data) ==
    LET bs1 == IF bs = <<>> THEN InitBuckets(N, W, data.utc_epoch_ns) ELSE bs
        cnt1 == CountOnEntry(cnt)
    IN IF bs1 = <<>>
       THEN Outcome(TRUE, bs1, cnt1, 0)
       ELSE LET first_bucket_start_ns == bs1[1].start_time_ns
                bucket_idx == find_bucket_index(first_bucket_start_ns,
                                                data.utc_epoch_ns, W)
            IN IF bucket_idx = None
               THEN Store(InitBuckets(N, W, data.utc_epoch_ns), cnt1, W, data)
               ELSE LET slid == Slide(bs1, cnt1, N, W, first_bucket_start_ns,
                                      unwrap(bucket_idx))
                    IN IF slid.panicked
                       THEN Outcome(TRUE, slid.buckets, slid.count, 0)
                       ELSE Store(slid.buckets, slid.count, W, data)

\* MarketDataCache::insert on a cache with fields bs, cnt, N, W.
insert(bs, cnt, N, W, data) ==
    LET bs1 == IF bs = <<>> THEN InitBuckets(N, W, data.utc_epoch_ns) ELSE bs
        cnt1 == CountOnEntry(cnt)
    IN IF bs1 = <<>>
       THEN Outcome(TRUE, bs1, cnt1, 0)     \* num_buckets = 0: buckets[0]
       ELSE LET first_bucket_start_ns == bs1[1].start_time_ns
                bucket_idx == find_bucket_index(first_bucket_start_ns,
                                                data.utc_epoch_ns, W)
            IN IF bucket_idx = None
               THEN Outcome(FALSE, bs1, cnt1, 0)
               ELSE LET slid == Slide(bs1, cnt1, N, W, first_bucket_start_ns,
                                      unwrap(bucket_idx))
                    IN IF slid.panicked
                       THEN Outcome(TRUE, slid.buckets, slid.count, 0)
                       ELSE Store(slid.buckets, slid.count, W, data)

\* The bucket indices every range query starts with; None if an unwrap or an
\* index into the deque panics.
RangeIdx(start_time, end_time) ==
    IF buckets = <<>> THEN None
    ELSE LET s == find_bucket_index(buckets[1].start_time_ns, start_time, bucket_ns)
             e == find_bucket_index(buckets[1].start_time_ns, end_time, bucket_ns)
         IN IF s = None \/ e = None THEN None
            ELSE IF unwrap(s) >= Len(buckets) THEN None
            ELSE IF unwrap(s) /= unwrap(e) /\ unwrap(e) >= Len(buckets) THEN None
            ELSE Some([start_idx |-> unwrap(s), end_idx |-> unwrap(e)])

RECURSIVE SumCounts(_, _)
\* (lo..hi).map(|i| buckets[i].count).sum(), over 0-based lo..hi inclusive
SumCounts(lo, hi) ==
    IF lo > hi THEN 0 ELSE buckets[lo + 1].count + SumCounts(lo + 1, hi)

\* count_range, lines 243-246 and 259-265: the partial head and tail buckets.
CountHead(start_idx, start_time, end_time) ==
    count_start_from(buckets[start_idx + 1], start_time)

\* CountTail as it would be without the start_idx != end_idx test.
CountTailAlways(start_idx, end_idx, end_time) ==
    count_end_before(buckets[end_idx + 1], end_time)

CountTail(start_idx, end_idx, end_time) ==
    IF start_idx /= end_idx
    THEN count_end_before(buckets[end_idx + 1], end_time)
    ELSE 0

\* MarketDataCache::count_range, for a range whose indices resolve.
count_range(start_time, end_time) ==
    LET ix == unwrap(RangeIdx(start_time, end_time))
    IN CountHead(ix.start_idx, start_time, end_time)
       + (IF ix.start_idx + 1 < ix.end_idx
          THEN SumCounts(ix.start_idx + 1, ix.end_idx - 1) ELSE 0)
       + CountTail(ix.start_idx, ix.end_idx, end_time)

RECURSIVE MinOfBuckets(_, _)
\* (lo..hi).map(|i| buckets[i].min_spread).min_by(..).unwrap_or(f64::MAX)
MinOfBuckets(lo, hi) ==
    IF lo > hi THEN F64_MAX
    ELSE f64_min2(buckets[lo + 1].min_spread, MinOfBuckets(lo + 1, hi))

RECURSIVE MaxOfBuckets(_, _)
\* (lo..hi).map(|i| buckets[i].max_spread).max_by(..).unwrap_or(-f64::MAX)
MaxOfBuckets(lo, hi) ==
    IF lo > hi THEN -F64_MAX
    ELSE f64_max2(buckets[lo + 1].max_spread, MaxOfBuckets(lo + 1, hi))

\* min_spread / max_spread, the partial head bucket: the entries scanned.
SpreadHead(start_idx, start_time, end_time) ==
    get_start_from(buckets[start_idx + 1], start_time)

\* min_spread / max_spread, the partial tail bucket: the entries scanned.
SpreadTail(start_idx, end_idx, end_time) ==
    IF start_idx /= end_idx
    THEN get_end_before(buckets[end_idx + 1], end_time)
    ELSE <<>>

\* MarketDataCache::min_spread, for a range whose indices resolve.
min_spread(start_time, end_time) ==
    LET ix == unwrap(RangeIdx(start_time, end_time))
        head == SpreadHead(ix.start_idx, start_time, end_time)
        tail == SpreadTail(ix.start_idx, ix.end_idx, end_time)
        min0 == F64_MAX
        min1 == IF head /= <<>> THEN f64_min2(min0, f64_min(SpreadsOf(head))) ELSE min0
        min2 == f64_min2(min1, MinOfBuckets(ix.start_idx + 1, ix.end_idx - 1))
    IN IF tail /= <<>> THEN f64_min2(min2, f64_min(SpreadsOf(tail))) ELSE min2

\* MarketDataCache::max_spread, for a range whose indices resolve.
max_spread(start_time, end_time) ==
    LET ix == unwrap(RangeIdx(start_time, end_time))
        head == SpreadHead(ix.start_idx, start_time, end_time)
        tail == SpreadTail(ix.start_idx, ix.end_idx, end_time)
        max0 == -F64_MAX
        max1 == IF head /= <<>> THEN f64_max2(max0, f64_max(SpreadsOf(head))) ELSE max0
        max2 == f64_max2(max1, MaxOfBuckets(ix.start_idx + 1, ix.end_idx - 1))
    IN IF tail /= <<>> THEN f64_max2(max2, f64_max(SpreadsOf(tail))) ELSE max2

----------------------------------------------------------------------------
(* The state machine: one action per public operation of MarketDataCache. *)

\* MarketDataCache::new(num_buckets, bucket_ns)
Init ==
    /\ \E a \in NewArguments : num_buckets = a[1] /\ bucket_ns = a[2]
    /\ buckets = <<>>
    /\ count = 0
    /\ aborted = FALSE
    /\ op = "new"
    /\ arg = 0
    /\ ret = 0
    /\ pre_start = None
    /\ pre_count = 0
    /\ bucket = None
    /\ pre_bucket = None
    /\ writers = None
    /\ threads = None

\* What every operation records about its call.
Called(name, a) ==
    /\ op' = name
    /\ arg' = a
    /\ pre_start' = IF buckets = <<>> THEN None ELSE Some(buckets[1].start_time_ns)
    /\ pre_count' = count
    /\ UNCHANGED <<bucket_ns, num_buckets, bucket, pre_bucket>>

\* The effect of an operation that changes the cache.
Apply(out) ==
    /\ buckets' = out.buckets
    /\ count' = out.count
    /\ aborted' = out.panicked
    /\ ret' = out.ret

\* A call that panics: the process unwinds with the cache as the call left it.
Panic(name) ==
    /\ Called(name, 0)
    /\ aborted' = TRUE
    /\ ret' = 0
    /\ UNCHANGED <<buckets, count, writers, threads>>

\* A range query reads the cache and leaves every field as it was; its result
\* is the value of the operator of its name. It panics if an index does not
\* resolve.
Query(name, start_time, end_time) ==
    IF RangeIdx(start_time, end_time) = None
    THEN Panic(name)
    ELSE UNCHANGED vars

Insert(ts, spread) ==
    /\ ~aborted
    /\ count < MaxCount
    /\ Called("insert", ts)
    /\ Apply(insert(buckets, count, num_buckets, bucket_ns,
                    [utc_epoch_ns |-> ts, spread |-> spread]))
    /\ UNCHANGED <<writers, threads>>

RemoveUpTo(time) ==
    /\ ~aborted
    /\ Called("remove_up_to", time)
    /\ Apply(remove_up_to(buckets, count, num_buckets, bucket_ns, time))
    /\ UNCHANGED <<writers, threads>>

CountRange(start_time, end_time) ==
    /\ ~aborted
    /\ Query("count_range", start_time, end_time)

MinSpread(start_time, end_time) ==
    /\ ~aborted
    /\ Query("min_spread", start_time, end_time)

MaxSpread(start_time, end_time) ==
    /\ ~aborted
    /\ Query("max_spread", start_time, end_time)

\* Range queries are called with start_time <= end_time; a range outside the
\* horizon is not excluded (the code does no sanity check: it panics). A query
\* either leaves the cache as it is or panics, and it can panic iff it can
\* with end_time = start_time or with end_time = MaxTs: the queries made are
\* those; the properties of the results range over every start_time <= end_time.
Next ==
    \/ \E ts \in Timestamps, spread \in Spreads : Insert(ts, spread)
    \/ \E time \in Timestamps : RemoveUpTo(time)
    \/ \E s \in Timestamps : \E e \in {s, MaxTs} : CountRange(s, e)
    \/ \E s \in Timestamps : \E e \in {s, MaxTs} : MinSpread(s, e)
    \/ \E s \in Timestamps : \E e \in {s, MaxTs} : MaxSpread(s, e)

Spec == Init /\ [][Next]_vars

----------------------------------------------------------------------------
(* Scenario 6 of the specification: new(10, 10), samples (ts = i, spread = i)  *)
(* for i in 0..99, then the sample (ts = 1000, spread = 0).                    *)

Scenario6 ==
    [i \in 1..101 |-> IF i <= 100
                      THEN [utc_epoch_ns |-> i - 1, spread |-> i - 1]
                      ELSE [utc_epoch_ns |-> 1000, spread |-> 0]]

Scenario6Init ==
    /\ num_buckets = 10
    /\ bucket_ns = 10
    /\ buckets = <<>>
    /\ count = 0
    /\ aborted = FALSE
    /\ op = "new"
    /\ arg = 0
    /\ ret = 0
    /\ pre_start = None
    /\ pre_count = 0
    /\ bucket = None
    /\ pre_bucket = None
    /\ writers = None
    /\ threads = None

\* The next insert of the scenario: the sample after the one inserted last.
Scenario6Insert ==
    /\ ~aborted
    /\ LET k == IF op = "new" THEN 1 ELSE arg + 2
       IN /\ k <= Len(Scenario6)
          /\ Called("insert", Scenario6[k].utc_epoch_ns)
          /\ Apply(insert(buckets, count, num_buckets, bucket_ns, Scenario6[k]))
          /\ UNCHANGED <<writers, threads>>

Scenario6Done == op = "insert" /\ arg = 1000

SpecScenario6 == Scenario6Init /\ [][Scenario6Insert]_vars

----------------------------------------------------------------------------
(* A Bucket on its own, as the unit tests of types/bucket.rs use it: one      *)
(* action per method of Bucket. The call is recorded in op, arg (the entry    *)
(* of an insert, else the threshold), ret and pre_bucket.                     *)

\* The buckets constructed: Bucket::new(start_time_ns, end_time_ns).
BucketArguments == {<<2, 5>>, <<0, 2>>}

CacheVars == <<buckets, bucket_ns, num_buckets, count, aborted,
               pre_start, pre_count, writers, threads>>

\* Bucket::new(start_time_ns, end_time_ns); there is no cache.
BucketInit ==
    /\ \E a \in BucketArguments : bucket = Bucket_new(a[1], a[2])
    /\ pre_bucket = bucket
    /\ op = "Bucket::new"
    /\ arg = 0
    /\ ret = 0
    /\ buckets = <<>>
    /\ bucket_ns = 0
    /\ num_buckets = 0
    /\ count = 0
    /\ aborted = FALSE
    /\ pre_start = None
    /\ pre_count = 0
    /\ writers = None
    /\ threads = None

\* A method call on the bucket: its name, argument, returned value and the
\* bucket as it leaves it.
BucketCalled(name, a, r, b) ==
    /\ op' = name
    /\ arg' = a
    /\ ret' = r
    /\ pre_bucket' = bucket
    /\ bucket' = b
    /\ UNCHANGED CacheVars

BucketInsert(ts, spread) ==
    /\ bucket.count < MaxCount
    /\ LET e == [utc_epoch_ns |-> ts, spread |-> spread]
           out == Bucket_insert(bucket, e)
       IN BucketCalled("Bucket::insert", e, out.ok, out.bucket)

BucketRemoveUpTo(threshold) ==
    LET out == Bucket_remove_up_to(bucket, threshold)
    IN BucketCalled("Bucket::remove_up_to", threshold, out.removed, out.bucket)

BucketGetStartFrom(threshold) ==
    BucketCalled("Bucket::get_start_from", threshold,
                 get_start_from(bucket, threshold), bucket)

BucketCountStartFrom(threshold) ==
    BucketCalled("Bucket::count_start_from", threshold,
                 count_start_from(bucket, threshold), bucket)

BucketGetEndBefore(threshold) ==
    BucketCalled("Bucket::get_end_before", threshold,
                 get_end_before(bucket, threshold), bucket)

BucketCountEndBefore(threshold) ==
    BucketCalled("Bucket::count_end_before", threshold,
                 count_end_before(bucket, threshold), bucket)

BucketGetTdigest ==
    LET out == get_tdigest(bucket)
    IN BucketCalled("Bucket::get_tdigest", 0, out.digest, out.bucket)

BucketNext ==
    \/ \E ts \in Timestamps, spread \in Spreads : BucketInsert(ts, spread)
    \/ \E threshold \in Timestamps : BucketRemoveUpTo(threshold)
    \/ \E threshold \in Timestamps : BucketGetStartFrom(threshold)
    \/ \E threshold \in Timestamps : BucketCountStartFrom(threshold)
    \/ \E threshold \in Timestamps : BucketGetEndBefore(threshold)
    \/ \E threshold \in Timestamps : BucketCountEndBefore(threshold)
    \/ BucketGetTdigest

SpecBucket == BucketInit /\ [][BucketNext]_vars

----------------------------------------------------------------------------
(* Threads sharing one cache: up to MaxWriters writers, each inserting one    *)
(* timestamp of its own, and a reader calling count(). insert takes           *)
(* &mut self, so a thread holds the cache exclusively for the whole call:     *)
(* the calls of the threads interleave as wholes, in any order.               *)

\* The sample with timestamp ts is among the entries of the buckets bs.
HoldsSample(bs, ts) ==
    \E i \in DOMAIN bs : \E j \in DOMAIN bs[i].entries :
        bs[i].entries[j].utc_epoch_ns = ts

\* The cache new(num_buckets, bucket_ns) after a first insert of timestamp 0,
\* and writers with distinct timestamps at or after the start of its horizon.
WritersInit ==
    /\ \E a \in NewArguments : num_buckets = a[1] /\ bucket_ns = a[2]
    /\ LET first == insert(<<>>, 0, num_buckets, bucket_ns,
                           [utc_epoch_ns |-> 0, spread |-> 1])
       IN /\ buckets = first.buckets
          /\ count = first.count
          /\ aborted = first.panicked
          /\ ret = first.ret
    /\ op = "insert"
    /\ arg = 0
    /\ pre_start = None
    /\ pre_count = 0
    /\ bucket = None
    /\ pre_bucket = None
    /\ \E pending \in SUBSET (Timestamps \ {0}) :
          /\ pending /= {}
          /\ Cardinality(pending) <= MaxWriters
          /\ writers = [pending |-> pending, done |-> {}, stored |-> 1,
                        horizon_end |-> buckets[Len(buckets)].end_time_ns]
    /\ threads = None

\* A writer thread calls insert with its timestamp.
WriterInsert(ts) ==
    /\ ~aborted
    /\ ts \in writers.pending
    /\ LET out == insert(buckets, count, num_buckets, bucket_ns,
                         [utc_epoch_ns |-> ts, spread |-> 1])
       IN /\ Called("insert", ts)
          /\ Apply(out)
          /\ writers' = [writers EXCEPT
                !.pending = @ \ {ts},
                !.done = @ \cup {ts},
                !.stored = IF ~out.panicked /\ HoldsSample(out.buckets, ts)
                           THEN @ + 1 ELSE @]
    /\ UNCHANGED threads

\* The reader thread calls count().
ReaderCount ==
    /\ ~aborted
    /\ op' = "count"
    /\ ret' = count
    /\ UNCHANGED <<buckets, bucket_ns, num_buckets, count, aborted, arg,
                   pre_start, pre_count, bucket, pre_bucket, writers, threads>>

WritersNext ==
    \/ \E ts \in Timestamps : WriterInsert(ts)
    \/ ReaderCount

SpecWriters == WritersInit /\ [][WritersNext]_vars

----------------------------------------------------------------------------
(* A writer thread running insert and a reader thread running count_range on  *)
(* one cache, each call in the steps of its code. threads is                  *)
(*   borrow: "none", "mut" (insert holds &mut self) or "shared" (count_range  *)
(*           holds &self);                                                    *)
(*   wpc, wdata, wthreshold: where the insert is, its sample, the threshold   *)
(*           of its slide; expected: what insert, taken as one step, makes    *)
(*           of the cache;                                                    *)
(*   rpc, rstart, rend: where the count_range is and its arguments; rbase:    *)
(*           the buckets[0].start_time_ns it computed its indices from;       *)
(*           rsidx, reidx: the indices; rcnt: its cnt.                        *)

\* CanBorrowMut as it would be if insert took the cache by shared reference.
CanBorrowMutAlways(t) == TRUE

\* pub fn insert(&mut self, ..): the call starts when no other borrow is live.
CanBorrowMut(t) == t.borrow = "none"

\* pub fn count_range(&self, ..): the call starts when no &mut borrow is live.
CanBorrowShared(t) == t.borrow /= "mut"

\* The cache new(num_buckets, bucket_ns) after a first insert of timestamp 0;
\* both threads are outside their calls.
SlideInit ==
    /\ \E a \in NewArguments : num_buckets = a[1] /\ bucket_ns = a[2]
    /\ LET first == insert(<<>>, 0, num_buckets, bucket_ns,
                           [utc_epoch_ns |-> 0, spread |-> 1])
       IN /\ buckets = first.buckets
          /\ count = first.count
          /\ aborted = first.panicked
          /\ ret = first.ret
    /\ op = "insert"
    /\ arg = 0
    /\ pre_start = None
    /\ pre_count = 0
    /\ bucket = None
    /\ pre_bucket = None
    /\ writers = None
    /\ threads = [borrow |-> "none",
                  wpc |-> "idle", wdata |-> None, wthreshold |-> 0,
                  expected |-> None,
                  rpc |-> "idle", rstart |-> 0, rend |-> 0, rbase |-> 0,
                  rsidx |-> 0, reidx |-> 0, rcnt |-> 0]

\* What the steps of the two threads leave alone.
SlideFrame == UNCHANGED <<bucket_ns, num_buckets, bucket, pre_bucket, writers>>
CallRecord == <<op, arg, ret, pre_start, pre_count>>

\* insert, lines 124-160: the call begins (the ring holds its buckets), bumps
\* the counter and looks the bucket up; a too-old sample returns, a too-new
\* one goes on to slide.
SlideInsertBegin(ts) ==
    /\ ~aborted
    /\ threads.wpc = "idle"
    /\ CanBorrowMut(threads)
    /\ count < MaxCount
    /\ LET data == [utc_epoch_ns |-> ts, spread |-> 1]
           first_bucket_start_ns == buckets[1].start_time_ns
           bucket_idx == find_bucket_index(first_bucket_start_ns, ts, bucket_ns)
           whole == insert(buckets, count, num_buckets, bucket_ns, data)
       IN /\ Called("insert", ts)
          /\ count' = CountOnEntry(count)
          /\ ret' = 0
          /\ UNCHANGED <<buckets, aborted, writers>>
          /\ threads' =
               IF bucket_idx = None
               THEN [threads EXCEPT !.expected = Some(whole)]
               ELSE [threads EXCEPT
                       !.borrow = "mut",
                       !.wdata = Some(data),
                       !.expected = Some(whole),
                       !.wpc = IF unwrap(bucket_idx) >= Len(buckets)
                               THEN "pop" ELSE "store",
                       !.wthreshold =
                           IF unwrap(bucket_idx) >= Len(buckets)
                           THEN first_bucket_start_ns
                                + bucket_ns * (unwrap(bucket_idx) + 1)
                                - num_buckets * bucket_ns
                           ELSE 0]

\* remove_up_to, lines 184-197: one turn of the pop loop.
SlidePop ==
    /\ ~aborted
    /\ threads.wpc = "pop"
    /\ IF Head(buckets).end_time_ns <= threads.wthreshold
       THEN /\ buckets' = Tail(buckets)
            /\ count' = count - Head(buckets).count
            /\ aborted' = (Tail(buckets) = <<>>)      \* front().unwrap()
            /\ UNCHANGED threads
       ELSE /\ threads' = [threads EXCEPT !.wpc = "purge"]
            /\ UNCHANGED <<buckets, count, aborted>>
    /\ UNCHANGED CallRecord
    /\ SlideFrame

\* remove_up_to, lines 199-204: the partial purge of the new head bucket.
SlidePurge ==
    /\ ~aborted
    /\ threads.wpc = "purge"
    /\ LET purged == Bucket_remove_up_to(Head(buckets), threads.wthreshold)
       IN /\ buckets' = <<purged.bucket>> \o Tail(buckets)
          /\ count' = count - purged.removed
    /\ threads' = [threads EXCEPT !.wpc = "push"]
    /\ UNCHANGED aborted
    /\ UNCHANGED CallRecord
    /\ SlideFrame

\* remove_up_to, lines 207-218: one turn of the refill loop.
SlidePush ==
    /\ ~aborted
    /\ threads.wpc = "push"
    /\ IF Len(buckets) < num_buckets
       THEN /\ buckets' = Refill(buckets, Len(buckets) + 1, bucket_ns)
            /\ UNCHANGED threads
       ELSE /\ threads' = [threads EXCEPT !.wpc = "store"]
            /\ UNCHANGED buckets
    /\ UNCHANGED <<count, aborted>>
    /\ UNCHANGED CallRecord
    /\ SlideFrame

\* insert, lines 161-173: the index is recomputed, the sample stored and the
\* call returns.
SlideStore ==
    /\ ~aborted
    /\ threads.wpc = "store"
    /\ LET out == Store(buckets, count, bucket_ns, unwrap(threads.wdata))
       IN /\ buckets' = out.buckets
          /\ count' = out.count
          /\ aborted' = out.panicked
    /\ threads' = [threads EXCEPT !.wpc = "idle", !.borrow = "none"]
    /\ UNCHANGED CallRecord
    /\ SlideFrame

\* A step of count_range that panics.
SlideQueryPanic ==
    /\ aborted' = TRUE
    /\ threads' = [threads EXCEPT !.rpc = "panicked"]

\* count_range, lines 229-238: the call begins, reads buckets[0] and
\* computes its two indices.
SlideQueryIndex(start_time, end_time) ==
    /\ ~aborted
    /\ threads.rpc = "idle"
    /\ CanBorrowShared(threads)
    /\ IF buckets = <<>>
       THEN SlideQueryPanic
       ELSE LET base == buckets[1].start_time_ns
                sidx == find_bucket_index(base, start_time, bucket_ns)
                eidx == find_bucket_index(base, end_time, bucket_ns)
            IN IF sidx = None \/ eidx = None
               THEN SlideQueryPanic
               ELSE /\ threads' = [threads EXCEPT
                          !.borrow = IF @ = "none" THEN "shared" ELSE @,
                          !.rpc = "head",
                          !.rstart = start_time, !.rend = end_time,
                          !.rbase = base,
                          !.rsidx = unwrap(sidx), !.reidx = unwrap(eidx),
                          !.rcnt = 0]
                    /\ UNCHANGED aborted
    /\ UNCHANGED <<buckets, count>>
    /\ UNCHANGED CallRecord
    /\ SlideFrame

\* count_range, lines 243-246: the partial head bucket.
SlideQueryHead ==
    /\ ~aborted
    /\ threads.rpc = "head"
    /\ IF threads.rsidx >= Len(buckets)
       THEN SlideQueryPanic
       ELSE /\ threads' = [threads EXCEPT
                  !.rpc = "mid",
                  !.rcnt = @ + count_start_from(buckets[threads.rsidx + 1],
                                                threads.rstart)]
            /\ UNCHANGED aborted
    /\ UNCHANGED <<buckets, count>>
    /\ UNCHANGED CallRecord
    /\ SlideFrame

\* count_range, lines 248-257: the whole interior buckets.
SlideQueryMid ==
    /\ ~aborted
    /\ threads.rpc = "mid"
    /\ IF threads.rsidx + 1 < threads.reidx /\ threads.reidx - 1 >= Len(buckets)
       THEN SlideQueryPanic
       ELSE /\ threads' = [threads EXCEPT
                  !.rpc = "tail",
                  !.rcnt = @ + SumCounts(threads.rsidx + 1, threads.reidx - 1)]
            /\ UNCHANGED aborted
    /\ UNCHANGED <<buckets, count>>
    /\ UNCHANGED CallRecord
    /\ SlideFrame

\* count_range, lines 259-267: the partial tail bucket; the call returns.
SlideQueryTail ==
    /\ ~aborted
    /\ threads.rpc = "tail"
    /\ IF threads.rsidx /= threads.reidx /\ threads.reidx >= Len(buckets)
       THEN SlideQueryPanic
       ELSE /\ threads' = [threads EXCEPT
                  !.borrow = IF @ = "shared" THEN "none" ELSE @,
                  !.rpc = "idle",
                  !.rcnt = @ + CountTail(threads.rsidx, threads.reidx,
                                         threads.rend)]
            /\ UNCHANGED aborted
    /\ UNCHANGED <<buckets, count>>
    /\ UNCHANGED CallRecord
    /\ SlideFrame

SlideNext ==
    \/ \E ts \in Timestamps : SlideInsertBegin(ts)
    \/ SlidePop
    \/ SlidePurge
    \/ SlidePush
    \/ SlideStore
    \/ \E s \in Timestamps : \E e \in s..MaxTs : SlideQueryIndex(s, e)
    \/ SlideQueryHead
    \/ SlideQueryMid
    \/ SlideQueryTail

SpecSlide == SlideInit /\ [][SlideNext]_vars

----------------------------------------------------------------------------
(* Two reader threads on one bucket. Each takes the bucket's read lock, as    *)
(* spread_percentiles does for an interior bucket, and calls get_tdigest. A   *)
(* RwLock admits any number of readers at once, and Bucket is declared Sync,  *)
(* so both run get_tdigest on the same RefCell. The borrow flag of a RefCell  *)
(* is a plain integer: borrow_mut reads it and then writes it, in two steps   *)
(* another thread can come between. A writer takes the write lock and has the *)
(* bucket to itself for the whole call.                                       *)

SketchReaders == {1, 2}

\* RefCell's borrow flag: 0 unused, below 0 mutably borrowed.
UNUSED == 0

\* The bucket new, no reader inside, the RefCell unused.
SketchInit ==
    /\ \E a \in BucketArguments : bucket = Bucket_new(a[1], a[2])
    /\ pre_bucket = bucket
    /\ op = "Bucket::new"
    /\ arg = 0
    /\ ret = 0
    /\ buckets = <<>>
    /\ bucket_ns = 0
    /\ num_buckets = 0
    /\ count = 0
    /\ aborted = FALSE
    /\ pre_start = None
    /\ pre_count = 0
    /\ writers = None
    /\ threads = [borrow |-> UNUSED,
                  pc |-> [r \in SketchReaders |-> "idle"],
                  digest |-> [r \in SketchReaders |-> None]]

SketchFrame ==
    UNCHANGED <<buckets, bucket_ns, num_buckets, count, pre_start, pre_count,
                writers, op, arg, ret, pre_bucket>>

\* A writer holding the write lock: no reader is inside; Bucket::insert.
SketchInsert(ts, spread) ==
    /\ ~aborted
    /\ \A r \in SketchReaders : threads.pc[r] = "idle"
    /\ bucket.count < MaxCount
    /\ LET e == [utc_epoch_ns |-> ts, spread |-> spread]
           out == Bucket_insert(bucket, e)
       IN BucketCalled("Bucket::insert", e, out.ok, out.bucket)

\* bucket.read(): the read lock is shared, any reader may enter.
SketchReadLock(r) ==
    /\ ~aborted
    /\ threads.pc[r] = "idle"
    /\ threads' = [threads EXCEPT !.pc[r] = "borrow_mut"]
    /\ UNCHANGED <<bucket, aborted>>
    /\ SketchFrame

\* borrow_mut, first half: read the flag; panic "already borrowed" unless it
\* is unused.
SketchBorrowCheck(r) ==
    /\ ~aborted
    /\ threads.pc[r] = "borrow_mut"
    /\ IF threads.borrow = UNUSED
       THEN /\ threads' = [threads EXCEPT !.pc[r] = "set"]
            /\ UNCHANGED aborted
       ELSE /\ aborted' = TRUE
            /\ threads' = [threads EXCEPT !.pc[r] = "panicked"]
    /\ UNCHANGED bucket
    /\ SketchFrame

\* borrow_mut, second half: write the flag; the thread now holds a RefMut.
SketchBorrowSet(r) ==
    /\ ~aborted
    /\ threads.pc[r] = "set"
    /\ threads' = [threads EXCEPT !.borrow = UNUSED - 1, !.pc[r] = "held"]
    /\ UNCHANGED <<bucket, aborted>>
    /\ SketchFrame

\* With the RefMut: return the stored sketch, or build one from the entries.
SketchLookup(r) ==
    /\ ~aborted
    /\ threads.pc[r] = "held"
    /\ IF bucket.tdigest.present
       THEN threads' = [threads EXCEPT !.digest[r] = Some(bucket.tdigest.spreads),
                                       !.pc[r] = "drop"]
       ELSE threads' = [threads EXCEPT
                           !.digest[r] = Some(merge_unsorted(SpreadsOf(bucket.entries))),
                           !.pc[r] = "store"]
    /\ UNCHANGED <<bucket, aborted>>
    /\ SketchFrame

\* *tdigest_opt = Some(new_tdigest.clone())
SketchStore(r) ==
    /\ ~aborted
    /\ threads.pc[r] = "store"
    /\ bucket' = [bucket EXCEPT !.tdigest = [present |-> TRUE,
                                              spreads |-> unwrap(threads.digest[r])]]
    /\ threads' = [threads EXCEPT !.pc[r] = "drop"]
    /\ UNCHANGED aborted
    /\ SketchFrame

\* Return: the RefMut is dropped (the flag goes up by one) and the read lock
\* released.
SketchReturn(r) ==
    /\ ~aborted
    /\ threads.pc[r] = "drop"
    /\ threads' = [threads EXCEPT !.borrow = threads.borrow + 1, !.pc[r] = "idle"]
    /\ UNCHANGED <<bucket, aborted>>
    /\ SketchFrame

SketchNext ==
    \/ \E ts \in Timestamps, spread \in Spreads : SketchInsert(ts, spread)
    \/ \E r \in SketchReaders : SketchReadLock(r)
    \/ \E r \in SketchReaders : SketchBorrowCheck(r)
    \/ \E r \in SketchReaders : SketchBorrowSet(r)
    \/ \E r \in SketchReaders : SketchLookup(r)
    \/ \E r \in SketchReaders : SketchStore(r)
    \/ \E r \in SketchReaders : SketchReturn(r)

SpecSketch == SketchInit /\ [][SketchNext]_vars

----------------------------------------------------------------------------
(* spread_percentiles. The sketches it collects from the head bucket, the     *)
(* interior buckets and the tail bucket are handed to TDigest::merge_digests  *)
(* and the three quantiles are estimated from the merge by the tdigest crate; *)
(* what is modelled is the Vec of sketches handed over, each sketch           *)
(* represented by its spreads in ascending order, and the sketches that       *)
(* get_tdigest leaves stored in the interior buckets.                         *)

\* The partial head bucket as it would be if a scan that matched nothing
\* contributed an empty sketch.
PercentileHeadAlways(start_idx, start_time) ==
    <<merge_unsorted(SpreadsOf(get_start_from(buckets[start_idx + 1], start_time)))>>

\* The partial head bucket: one sketch of the entries scanned, if there are any.
PercentileHead(start_idx, start_time) ==
    LET entries == get_start_from(buckets[start_idx + 1], start_time)
    IN IF entries /= <<>> THEN <<merge_unsorted(SpreadsOf(entries))>> ELSE <<>>

\* The interior buckets start_idx + 1 .. end_idx - 1: get_tdigest of each,
\* collected in index order.
PercentileMiddle(start_idx, end_idx) ==
    [k \in 1..(end_idx - start_idx - 1) |->
        get_tdigest(buckets[start_idx + 1 + k]).digest]

\* The partial tail bucket, if it is not the head bucket.
PercentileTail(start_idx, end_idx, end_time) ==
    IF start_idx /= end_idx
    THEN LET entries == get_end_before(buckets[end_idx + 1], end_time)
         IN IF entries /= <<>> THEN <<merge_unsorted(SpreadsOf(entries))>> ELSE <<>>
    ELSE <<>>

\* The ring after get_tdigest was called on the buckets at the (0-based)
\* indices of `built`.
WithSketches(built) ==
    [i \in DOMAIN buckets |->
        IF (i - 1) \in built THEN get_tdigest(buckets[i]).bucket ELSE buckets[i]]

\* MarketDataCache::spread_percentiles, for a range whose indices resolve: the
\* sketches merged and the ring as the call leaves it.
spread_percentiles(start_time, end_time) ==
    LET idx == unwrap(RangeIdx(start_time, end_time))
        s == idx.start_idx
        e == idx.end_idx
    IN [tdigests |-> PercentileHead(s, start_time)
                        \o PercentileMiddle(s, e)
                        \o PercentileTail(s, e, end_time),
        buckets |-> WithSketches((s + 1)..(e - 1))]

\* The interior indices of a query that exist in the ring; on a panic the
\* parallel tasks for any of them may have run.
InteriorInRing(start_time, end_time) ==
    IF buckets = <<>> THEN {}
    ELSE LET s == find_bucket_index(buckets[1].start_time_ns, start_time, bucket_ns)
             e == find_bucket_index(buckets[1].start_time_ns, end_time, bucket_ns)
         IN IF s = None \/ e = None THEN {}
            ELSE {i \in (unwrap(s) + 1)..(unwrap(e) - 1) : i < Len(buckets)}

SpreadPercentiles(start_time, end_time) ==
    /\ ~aborted
    /\ op' = "spread_percentiles"
    /\ arg' = [start_time |-> start_time, end_time |-> end_time]
    /\ pre_start' = IF buckets = <<>> THEN None ELSE Some(buckets[1].start_time_ns)
    /\ pre_count' = count
    /\ IF RangeIdx(start_time, end_time) = None
       THEN /\ aborted' = TRUE
            /\ ret' = 0
            /\ \E built \in SUBSET InteriorInRing(start_time, end_time) :
                  buckets' = WithSketches(built)
       ELSE LET out == spread_percentiles(start_time, end_time)
            IN /\ aborted' = FALSE
               /\ ret' = out.tdigests
               /\ buckets' = out.buckets
    /\ UNCHANGED <<count, bucket_ns, num_buckets, bucket, pre_bucket, writers, threads>>

\* new(3, 2): the smallest ring with an interior bucket between the head and
\* the tail of a query.
PercentilesInit ==
    /\ Init
    /\ num_buckets = 3
    /\ bucket_ns = 2

\* The samples inserted: one spread per timestamp, so that a bucket's samples
\* come in ascending or descending spread depending on the order of insertion.
PercentilesInsert(ts) == Insert(ts, (ts % MaxSpreadValue) + 1)

PercentilesNext ==
    \/ \E ts \in Timestamps : PercentilesInsert(ts)
    \/ \E s \in Timestamps : \E e \in s..MaxTs : SpreadPercentiles(s, e)

SpecPercentiles == PercentilesInit /\ [][PercentilesNext]_vars

----------------------------------------------------------------------------
(* The parallel fan-out of count_range, min_spread and max_spread over the    *)
(* interior buckets start_idx + 1 .. end_idx - 1. The parallel iterator       *)
(* splits the index range into tasks that run in any order, each reading its  *)
(* bucket under that bucket's read lock, and reduces the results of adjacent  *)
(* pieces pairwise, in any association. The query borrows the cache shared    *)
(* for its whole run, so no insert comes in between.                          *)

FanOutQueries == {"count_range", "min_spread", "max_spread"}

\* A ring of four buckets: a query can have two interior buckets.
FanOutArguments == {<<4, 1>>}

FanOutIdle ==
    [pc |-> "idle", query |-> "", start_time |-> 0, end_time |-> 0,
     pending |-> {}, parts |-> {}]

FanOutInit ==
    /\ \E a \in FanOutArguments : num_buckets = a[1] /\ bucket_ns = a[2]
    /\ buckets = <<>>
    /\ count = 0
    /\ aborted = FALSE
    /\ op = "new"
    /\ arg = 0
    /\ ret = 0
    /\ pre_start = None
    /\ pre_count = 0
    /\ bucket = None
    /\ pre_bucket = None
    /\ writers = None
    /\ threads = FanOutIdle

\* insert takes the cache exclusively: no query is running. One spread per
\* timestamp.
FanOutInsert(ts) ==
    /\ threads.pc = "idle"
    /\ Insert(ts, (ts % MaxSpreadValue) + 1)

\* remove_up_to takes the cache exclusively as well.
FanOutRemoveUpTo(time) ==
    /\ threads.pc = "idle"
    /\ RemoveUpTo(time)

\* .map(|i| ..): what a task reads from interior bucket i.
MapBucket(query, i) ==
    CASE query = "count_range" -> buckets[i + 1].count
      [] query = "min_spread" -> buckets[i + 1].min_spread
      [] query = "max_spread" -> buckets[i + 1].max_spread

\* Reduce as it would be if it kept its left operand.
ReduceKeepsLeft(query, a, b) == a

\* .sum(), .min_by(partial_cmp), .max_by(partial_cmp): two results into one.
Reduce(query, a, b) ==
    CASE query = "count_range" -> a + b
      [] query = "min_spread" -> f64_min2(a, b)
      [] query = "max_spread" -> f64_max2(a, b)

\* The result of the reduction over no bucket at all: the empty sum, or
\* unwrap_or(f64::MAX), unwrap_or(-f64::MAX).
ReduceOfNone(query) ==
    CASE query = "count_range" -> 0
      [] query = "min_spread" -> F64_MAX
      [] query = "max_spread" -> -F64_MAX

\* The value the query returns, given the result `middle` of its fan-out.
ComposeRange(query, start_time, end_time, middle) ==
    LET ix == unwrap(RangeIdx(start_time, end_time))
        head == SpreadHead(ix.start_idx, start_time, end_time)
        tail == SpreadTail(ix.start_idx, ix.end_idx, end_time)
    IN CASE query = "count_range" ->
              CountHead(ix.start_idx, start_time, end_time) + middle
                  + CountTail(ix.start_idx, ix.end_idx, end_time)
         [] query = "min_spread" ->
              LET min1 == IF head /= <<>>
                          THEN f64_min2(F64_MAX, f64_min(SpreadsOf(head)))
                          ELSE F64_MAX
                  min2 == f64_min2(min1, middle)
              IN IF tail /= <<>> THEN f64_min2(min2, f64_min(SpreadsOf(tail))) ELSE min2
         [] query = "max_spread" ->
              LET max1 == IF head /= <<>>
                          THEN f64_max2(-F64_MAX, f64_max(SpreadsOf(head)))
                          ELSE -F64_MAX
                  max2 == f64_max2(max1, middle)
              IN IF tail /= <<>> THEN f64_max2(max2, f64_max(SpreadsOf(tail))) ELSE max2

FanOutFrame ==
    UNCHANGED <<buckets, count, bucket_ns, num_buckets, bucket, pre_bucket, writers>>

\* The query starts: indices resolved (or a panic), the head bucket scanned,
\* the interior indices handed to the parallel iterator.
FanOutBegin(query, start_time, end_time) ==
    /\ ~aborted
    /\ threads.pc = "idle"
    /\ IF RangeIdx(start_time, end_time) = None
       THEN Panic(query)
       ELSE LET ix == unwrap(RangeIdx(start_time, end_time))
            IN /\ threads' = [pc |-> "middle", query |-> query,
                              start_time |-> start_time, end_time |-> end_time,
                              pending |-> (ix.start_idx + 1)..(ix.end_idx - 1),
                              parts |-> {}]
               /\ op' = query
               /\ arg' = [start_time |-> start_time, end_time |-> end_time]
               /\ ret' = 0
               /\ pre_start' = Some(buckets[1].start_time_ns)
               /\ pre_count' = count
               /\ UNCHANGED aborted
               /\ FanOutFrame

\* One task: interior bucket i read under its read lock.
FanOutTask(i) ==
    /\ threads.pc = "middle"
    /\ i \in threads.pending
    /\ threads' = [threads EXCEPT
                      !.pending = @ \ {i},
                      !.parts = @ \cup {[lo |-> i, hi |-> i,
                                         val |-> MapBucket(threads.query, i)]}]
    /\ UNCHANGED <<aborted, op, arg, ret, pre_start, pre_count>>
    /\ FanOutFrame

\* The results of two adjacent pieces of the range reduced to one.
FanOutReduce ==
    /\ threads.pc = "middle"
    /\ \E a, b \in threads.parts :
          /\ a.hi + 1 = b.lo
          /\ threads' = [threads EXCEPT
                            !.parts = (@ \ {a, b}) \cup
                                        {[lo |-> a.lo, hi |-> b.hi,
                                          val |-> Reduce(threads.query, a.val, b.val)]}]
    /\ UNCHANGED <<aborted, op, arg, ret, pre_start, pre_count>>
    /\ FanOutFrame

\* Every task done and reduced: the tail bucket scanned, the value returned.
FanOutReturn ==
    /\ threads.pc = "middle"
    /\ threads.pending = {}
    /\ Cardinality(threads.parts) <= 1
    /\ LET middle == IF threads.parts = {} THEN ReduceOfNone(threads.query)
                     ELSE (CHOOSE p \in threads.parts : TRUE).val
       IN ret' = ComposeRange(threads.query, threads.start_time,
                              threads.end_time, middle)
    /\ threads' = FanOutIdle
    /\ UNCHANGED <<aborted, op, arg, pre_start, pre_count>>
    /\ FanOutFrame

FanOutNext ==
    \/ \E ts \in Timestamps : FanOutInsert(ts)
    \/ \E time \in Timestamps : FanOutRemoveUpTo(time)
    \/ \E q \in FanOutQueries : \E s \in Timestamps : \E e \in s..MaxTs :
          FanOutBegin(q, s, e)
    \/ \E i \in 0..MaxTs : FanOutTask(i)
    \/ FanOutReduce
    \/ FanOutReturn

SpecFanOut == FanOutInit /\ [][FanOutNext]_vars

----------------------------------------------------------------------------
(* Bucket locks. Every bucket sits in its own RwLock; an operation takes a    *)
(* lock in a block of its own and drops the guard at the end of the block.    *)
(* A lock is named by the start_time_ns of its bucket (no two buckets that    *)
(* exist at the same time start at the same instant). A section is one such   *)
(* block: the lock taken and whether it is taken for reading or writing.      *)
(* A writer (insert, remove_up_to) runs the sections of its call one after    *)
(* the other; a range query runs the sections before its interior buckets,    *)
(* then one task per interior bucket on the threads of the parallel           *)
(* iterator, then its tail section. Two reader threads share the cache.       *)

Section(b, mode) == [bucket |-> b.start_time_ns, mode |-> mode]

RECURSIVE PopSections(_, _)
\* remove_up_to, the pop loop: popped.read(), then front().unwrap().read().
PopSections(bs, time) ==
    IF Head(bs).end_time_ns <= time
    THEN <<Section(Head(bs), "read")>>
            \o (IF Tail(bs) = <<>> THEN <<>>
                ELSE <<Section(Head(Tail(bs)), "read")>> \o PopSections(Tail(bs), time))
    ELSE <<>>

RECURSIVE RefillSections(_, _, _)
\* remove_up_to, the refill loop: back().unwrap().read() before every push.
RefillSections(bs, N, W) ==
    IF Len(bs) < N
    THEN LET last_end == bs[Len(bs)].end_time_ns
         IN <<Section(bs[Len(bs)], "read")>>
               \o RefillSections(Append(bs, Bucket_new(last_end, last_end + W)), N, W)
    ELSE <<>>

\* The sections of remove_up_to(time) on the ring bs, and whether it panics
\* after them.
RemovePlan(bs, N, W, time) ==
    IF bs = <<>>
    THEN [sections |-> <<>>, panics |-> TRUE]
    ELSE LET popped == PopExpired(bs, 0, time)
             pops == <<Section(bs[1], "read")>> \o PopSections(bs, time)
         IN IF popped.panicked
            THEN [sections |-> pops, panics |-> TRUE]
            ELSE [sections |-> pops \o <<Section(Head(popped.buckets), "write")>>
                                 \o RefillSections(popped.buckets, N, W),
                  panics |-> FALSE]

\* The sections of insert of a sample with timestamp ts on the ring bs.
InsertPlan(bs, N, W, ts) ==
    LET bs1 == IF bs = <<>> THEN InitBuckets(N, W, ts) ELSE bs
        first == <<Section(bs1[1], "read")>>
        bucket_idx == find_bucket_index(bs1[1].start_time_ns, ts, W)
    IN IF bucket_idx = None
       THEN [sections |-> first, panics |-> FALSE]
       ELSE IF unwrap(bucket_idx) >= Len(bs1)
       THEN LET threshold == bs1[1].start_time_ns + W * (unwrap(bucket_idx) + 1) - N * W
                slide == RemovePlan(bs1, N, W, threshold)
                after == remove_up_to(bs1, 0, N, W, threshold).buckets
            IN IF slide.panics
               THEN [sections |-> first \o slide.sections, panics |-> TRUE]
               ELSE LET idx == unwrap(find_bucket_index(after[1].start_time_ns, ts, W))
                    IN [sections |-> first \o slide.sections
                                        \o <<Section(after[1], "read"),
                                             Section(after[idx + 1], "write")>>,
                        panics |-> FALSE]
       ELSE [sections |-> first \o <<Section(bs1[1], "read"),
                                     Section(bs1[unwrap(bucket_idx) + 1], "write")>>,
             panics |-> FALSE]

\* The sections and tasks of a range query (count_range, min_spread,
\* max_spread, spread_percentiles take the same locks): before the interior
\* buckets, the interior buckets, after them; whether it panics.
QueryPlan(bs, W, start_time, end_time) ==
    LET s == find_bucket_index(bs[1].start_time_ns, start_time, W)
        e == find_bucket_index(bs[1].start_time_ns, end_time, W)
        first == <<Section(bs[1], "read")>>
    IN IF s = None \/ e = None
       THEN [pre |-> first, tasks |-> {}, post |-> <<>>, panics |-> TRUE]
       ELSE IF unwrap(s) >= Len(bs)
       THEN [pre |-> first, tasks |-> {}, post |-> <<>>, panics |-> TRUE]
       ELSE LET interior == (unwrap(s) + 1)..(unwrap(e) - 1)
                inside == {i \in interior : i < Len(bs)}
                tail_ok == unwrap(e) < Len(bs)
            IN [pre |-> first \o <<Section(bs[unwrap(s) + 1], "read")>>,
                tasks |-> {bs[i + 1].start_time_ns : i \in inside},
                post |-> IF unwrap(s) /= unwrap(e) /\ inside = interior /\ tail_ok
                         THEN <<Section(bs[unwrap(e) + 1], "read")>>
                         ELSE <<>>,
                panics |-> ~(inside = interior /\ tail_ok)]

LockReaders == {1, 2}

\* Who holds a lock: the writer (thread 0) or a reader thread, and for a
\* task of a reader's parallel iterator the bucket it was given.
MainOf(thread) == [thread |-> thread, task |-> -1]
TaskOf(thread, b) == [thread |-> thread, task |-> b]

WriterIdle ==
    [pc |-> "idle", call |-> "", arg |-> 0, sections |-> <<>>, holding |-> FALSE]

ReaderIdle ==
    [pc |-> "idle", pre |-> <<>>, tasks |-> {}, running |-> {}, post |-> <<>>,
     panics |-> FALSE, holding |-> FALSE]

\* new(4, 1), no call made yet, no lock held.
LocksInit ==
    /\ num_buckets = 4
    /\ bucket_ns = 1
    /\ buckets = <<>>
    /\ count = 0
    /\ aborted = FALSE
    /\ op = "new"
    /\ arg = 0
    /\ ret = 0
    /\ pre_start = None
    /\ pre_count = 0
    /\ bucket = None
    /\ pre_bucket = None
    /\ writers = None
    /\ threads = [borrow |-> "none", w |-> WriterIdle,
                  r |-> [x \in LockReaders |-> ReaderIdle], held |-> {}]

\* RwLock: a read lock is granted unless the bucket is locked for writing, a
\* write lock unless it is locked at all.
Available(held, sec) ==
    \A l \in held :
        l.bucket = sec.bucket => (sec.mode = "read" /\ l.mode = "read")

\* The locks held once the guard of a section is kept to the end of the call.
AfterSectionGuardKept(held, owner, sec) == held

\* The locks held after a section: its guard is dropped at the end of the
\* block.
AfterSection(held, owner, sec) ==
    held \ {[owner |-> owner, bucket |-> sec.bucket, mode |-> sec.mode]}

LocksFrame ==
    UNCHANGED <<buckets, count, aborted, op, arg, ret, pre_start, pre_count,
                bucket_ns, num_buckets, bucket, pre_bucket, writers>>

\* insert(&mut self, ..) is called: exclusive borrow of the cache.
LockInsertBegin(ts) ==
    /\ ~aborted
    /\ threads.w.pc = "idle"
    /\ CanBorrowMut(threads)
    /\ count < MaxCount
    /\ threads' = [threads EXCEPT
          !.borrow = "mut",
          !.w = [pc |-> "run", call |-> "insert", arg |-> ts,
                 sections |-> InsertPlan(buckets, num_buckets, bucket_ns, ts).sections,
                 holding |-> FALSE]]
    /\ LocksFrame

\* remove_up_to(&mut self, time) is called.
LockRemoveBegin(time) ==
    /\ ~aborted
    /\ threads.w.pc = "idle"
    /\ CanBorrowMut(threads)
    /\ threads' = [threads EXCEPT
          !.borrow = "mut",
          !.w = [pc |-> "run", call |-> "remove_up_to", arg |-> time,
                 sections |-> RemovePlan(buckets, num_buckets, bucket_ns, time).sections,
                 holding |-> FALSE]]
    /\ LocksFrame

\* The writer enters its next section: .read() / .write() on the bucket.
LockWriterAcquire ==
    /\ threads.w.pc = "run"
    /\ ~threads.w.holding
    /\ threads.w.sections /= <<>>
    /\ LET sec == Head(threads.w.sections)
       IN /\ Available(threads.held, sec)
          /\ threads' = [threads EXCEPT
                !.held = @ \cup {[owner |-> MainOf(0), bucket |-> sec.bucket,
                                  mode |-> sec.mode]},
                !.w.holding = TRUE]
    /\ LocksFrame

\* The writer leaves the section.
LockWriterRelease ==
    /\ threads.w.pc = "run"
    /\ threads.w.holding
    /\ threads' = [threads EXCEPT
          !.held = AfterSection(@, MainOf(0), Head(threads.w.sections)),
          !.w.sections = Tail(@),
          !.w.holding = FALSE]
    /\ LocksFrame

\* The writer's call returns (or panics): the cache is as the call leaves it.
LockWriterReturn ==
    /\ threads.w.pc = "run"
    /\ ~threads.w.holding
    /\ threads.w.sections = <<>>
    /\ LET out == IF threads.w.call = "insert"
                  THEN insert(buckets, count, num_buckets, bucket_ns,
                              [utc_epoch_ns |-> threads.w.arg, spread |-> 1])
                  ELSE remove_up_to(buckets, count, num_buckets, bucket_ns,
                                    threads.w.arg)
       IN /\ buckets' = out.buckets
          /\ count' = out.count
          /\ aborted' = out.panicked
    /\ threads' = [threads EXCEPT !.borrow = "none", !.w = WriterIdle]
    /\ UNCHANGED <<op, arg, ret, pre_start, pre_count, bucket_ns, num_buckets,
                   bucket, pre_bucket, writers>>

\* A range query (&self) is called by reader thread x.
LockQueryBegin(x, start_time, end_time) ==
    /\ ~aborted
    /\ threads.r[x].pc = "idle"
    /\ CanBorrowShared(threads)
    /\ IF buckets = <<>>
       THEN Panic("range query")
       ELSE LET plan == QueryPlan(buckets, bucket_ns, start_time, end_time)
            IN /\ threads' = [threads EXCEPT
                     !.borrow = "shared",
                     !.r[x] = [pc |-> "run", pre |-> plan.pre, tasks |-> plan.tasks,
                               running |-> {}, post |-> plan.post,
                               panics |-> plan.panics, holding |-> FALSE]]
               /\ LocksFrame

\* The section the calling thread of a query enters next, if any: those
\* before the parallel iterator, then, when every task is done, the tail.
NextSection(rd) ==
    IF rd.pre /= <<>> THEN <<Head(rd.pre)>>
    ELSE IF rd.tasks = {} /\ rd.running = {} /\ rd.post /= <<>> THEN <<Head(rd.post)>>
    ELSE <<>>

LockReaderAcquire(x) ==
    /\ threads.r[x].pc = "run"
    /\ ~threads.r[x].holding
    /\ NextSection(threads.r[x]) /= <<>>
    /\ LET sec == NextSection(threads.r[x])[1]
       IN /\ Available(threads.held, sec)
          /\ threads' = [threads EXCEPT
                !.held = @ \cup {[owner |-> MainOf(x), bucket |-> sec.bucket,
                                  mode |-> sec.mode]},
                !.r[x].holding = TRUE]
    /\ LocksFrame

LockReaderRelease(x) ==
    /\ threads.r[x].pc = "run"
    /\ threads.r[x].holding
    /\ LET rd == threads.r[x]
           sec == NextSection(rd)[1]
       IN threads' = [threads EXCEPT
             !.held = AfterSection(@, MainOf(x), sec),
             !.r[x].pre = IF rd.pre /= <<>> THEN Tail(rd.pre) ELSE rd.pre,
             !.r[x].post = IF rd.pre /= <<>> THEN rd.post ELSE Tail(rd.post),
             !.r[x].holding = FALSE]
    /\ LocksFrame

\* A task of the parallel iterator: self.buckets[i].read() on its bucket.
LockTaskAcquire(x, b) ==
    /\ threads.r[x].pc = "run"
    /\ threads.r[x].pre = <<>>
    /\ ~threads.r[x].holding
    /\ b \in threads.r[x].tasks
    /\ Available(threads.held, [bucket |-> b, mode |-> "read"])
    /\ threads' = [threads EXCEPT
          !.held = @ \cup {[owner |-> TaskOf(x, b), bucket |-> b, mode |-> "read"]},
          !.r[x].tasks = @ \ {b},
          !.r[x].running = @ \cup {b}]
    /\ LocksFrame

\* The task is done and its guard dropped.
LockTaskRelease(x, b) ==
    /\ threads.r[x].pc = "run"
    /\ b \in threads.r[x].running
    /\ threads' = [threads EXCEPT
          !.held = AfterSection(@, TaskOf(x, b), [bucket |-> b, mode |-> "read"]),
          !.r[x].running = @ \ {b}]
    /\ LocksFrame

\* The query returns, or panics on an index that does not resolve (the tasks
\* that were started have ended; others may not have run).
LockQueryReturn(x) ==
    LET rd == threads.r[x]
        others == \E y \in LockReaders \ {x} : threads.r[y].pc = "run"
    IN /\ rd.pc = "run"
       /\ ~rd.holding
       /\ rd.pre = <<>>
       /\ rd.running = {}
       /\ rd.post = <<>>
       /\ rd.panics \/ rd.tasks = {}
       /\ threads' = [threads EXCEPT
             !.borrow = IF others THEN "shared" ELSE "none",
             !.r[x] = ReaderIdle]
       /\ IF rd.panics
          THEN /\ aborted' = TRUE
               /\ op' = "range query"
               /\ UNCHANGED <<arg, ret, pre_start, pre_count>>
          ELSE UNCHANGED <<aborted, op, arg, ret, pre_start, pre_count>>
       /\ UNCHANGED <<buckets, count, bucket_ns, num_buckets, bucket, pre_bucket, writers>>

\* count(&self): one atomic load, no bucket is touched.
LockCount ==
    /\ ~aborted
    /\ CanBorrowShared(threads)
    /\ UNCHANGED vars

\* The ranges queried: reader 1 queries every range start_time <= end_time,
\* reader 2 single instants (head bucket only, no parallel iterator).
QueryEnds(x, start_time) == IF x = 1 THEN start_time..MaxTs ELSE {start_time}

LocksNext ==
    \/ \E ts \in Timestamps : LockInsertBegin(ts)
    \/ \E time \in Timestamps : LockRemoveBegin(time)
    \/ LockWriterAcquire
    \/ LockWriterRelease
    \/ LockWriterReturn
    \/ \E x \in LockReaders : \E s \in Timestamps : \E e \in QueryEnds(x, s) :
          LockQueryBegin(x, s, e)
    \/ \E x \in LockReaders : LockReaderAcquire(x)
    \/ \E x \in LockReaders : LockReaderRelease(x)
    \/ \E x \in LockReaders : \E b \in Timestamps : LockTaskAcquire(x, b)
    \/ \E x \in LockReaders : \E b \in Timestamps : LockTaskRelease(x, b)
    \/ \E x \in LockReaders : LockQueryReturn(x)
    \/ LockCount

SpecLocks == LocksInit /\ [][LocksNext]_vars

----------------------------------------------------------------------------
(* The cache-wide counter, step by step. insert and remove_up_to are run in   *)
(* the order of their statements, with the counter's fetch_add and fetch_sub  *)
(* as steps of their own: the state between a bucket leaving the ring and     *)
(* its count leaving the counter is a state of the model. Both take           *)
(* &mut self: one call runs at a time.                                        *)

\* usize::MAX + 1, scaled to the integers of the model.
USIZE_RANGE == 1073741824

\* AtomicUsize::fetch_sub wraps around on underflow.
fetch_sub(cnt, n) == (cnt - n) % USIZE_RANGE

CounterIdle == [pc |-> "idle", call |-> "", data |-> None, time |-> 0, pending |-> 0]

CounterInit ==
    /\ \E a \in NewArguments : num_buckets = a[1] /\ bucket_ns = a[2]
    /\ buckets = <<>>
    /\ count = 0
    /\ aborted = FALSE
    /\ op = "new"
    /\ arg = 0
    /\ ret = 0
    /\ pre_start = None
    /\ pre_count = 0
    /\ bucket = None
    /\ pre_bucket = None
    /\ writers = None
    /\ threads = CounterIdle

CounterFrame == UNCHANGED <<bucket_ns, num_buckets, bucket, pre_bucket, writers>>

\* insert, lines 124-151: the ring is built if there is none, the counter
\* bumped, the bucket looked up; a too-old sample returns here.
CounterInsertBegin(ts) ==
    /\ ~aborted
    /\ threads.pc = "idle"
    /\ count < MaxCount
    /\ Called("insert", ts)
    /\ ret' = 0
    /\ LET data == [utc_epoch_ns |-> ts, spread |-> (ts % MaxSpreadValue) + 1]
           bs1 == IF buckets = <<>> THEN InitBuckets(num_buckets, bucket_ns, ts)
                  ELSE buckets
           bucket_idx == find_bucket_index(bs1[1].start_time_ns, ts, bucket_ns)
       IN /\ buckets' = bs1
          /\ count' = CountOnEntry(count)
          /\ threads' =
               IF bucket_idx = None THEN CounterIdle
               ELSE IF unwrap(bucket_idx) >= Len(bs1)
               THEN [pc |-> "pop", call |-> "insert", data |-> Some(data),
                     time |-> bs1[1].start_time_ns
                                + bucket_ns * (unwrap(bucket_idx) + 1)
                                - num_buckets * bucket_ns,
                     pending |-> 0]
               ELSE [pc |-> "store", call |-> "insert", data |-> Some(data),
                     time |-> 0, pending |-> 0]
    /\ UNCHANGED <<aborted, writers>>

\* remove_up_to, lines 178-183: called on its own; buckets[0] panics if
\* there is no ring.
CounterRemoveBegin(time) ==
    /\ ~aborted
    /\ threads.pc = "idle"
    /\ Called("remove_up_to", time)
    /\ ret' = 0
    /\ aborted' = (buckets = <<>>)
    /\ threads' = IF buckets = <<>> THEN CounterIdle
                  ELSE [pc |-> "pop", call |-> "remove_up_to", data |-> None,
                        time |-> time, pending |-> 0]
    /\ UNCHANGED <<buckets, count, writers>>

\* Lines 184-189: the loop test; pop_front and the popped bucket's count read.
CounterPop ==
    /\ ~aborted
    /\ threads.pc = "pop"
    /\ IF Head(buckets).end_time_ns <= threads.time
       THEN /\ buckets' = Tail(buckets)
            /\ threads' = [threads EXCEPT !.pc = "pop_sub",
                                          !.pending = Head(buckets).count]
       ELSE /\ threads' = [threads EXCEPT !.pc = "purge"]
            /\ UNCHANGED buckets
    /\ UNCHANGED <<count, aborted, CallRecord>>
    /\ CounterFrame

\* Lines 190-197: fetch_sub of the popped count; front().unwrap() panics if
\* no bucket is left.
CounterPopSub ==
    /\ ~aborted
    /\ threads.pc = "pop_sub"
    /\ count' = fetch_sub(count, threads.pending)
    /\ aborted' = (buckets = <<>>)
    /\ threads' = [threads EXCEPT !.pc = "pop", !.pending = 0]
    /\ UNCHANGED <<buckets, CallRecord>>
    /\ CounterFrame

\* Lines 199-203: the head bucket purged under its write lock.
CounterPurge ==
    /\ ~aborted
    /\ threads.pc = "purge"
    /\ LET purged == Bucket_remove_up_to(Head(buckets), threads.time)
       IN /\ buckets' = <<purged.bucket>> \o Tail(buckets)
          /\ threads' = [threads EXCEPT !.pc = "purge_sub",
                                        !.pending = purged.removed]
    /\ UNCHANGED <<count, aborted, CallRecord>>
    /\ CounterFrame

\* Line 204: fetch_sub of the number purged.
CounterPurgeSub ==
    /\ ~aborted
    /\ threads.pc = "purge_sub"
    /\ count' = fetch_sub(count, threads.pending)
    /\ threads' = [threads EXCEPT !.pc = "push", !.pending = 0]
    /\ UNCHANGED <<buckets, aborted, CallRecord>>
    /\ CounterFrame

\* Lines 207-219: the ring refilled; remove_up_to returns
\* original_count - count, and a sliding insert goes on to store.
CounterPush ==
    /\ ~aborted
    /\ threads.pc = "push"
    /\ buckets' = Refill(buckets, num_buckets, bucket_ns)
    /\ IF threads.call = "remove_up_to"
       THEN /\ ret' = pre_count - count
            /\ threads' = CounterIdle
       ELSE /\ threads' = [threads EXCEPT !.pc = "store"]
            /\ UNCHANGED ret
    /\ UNCHANGED <<count, aborted, op, arg, pre_start, pre_count>>
    /\ CounterFrame

\* insert, lines 161-173: the index recomputed, the sample stored.
CounterStore ==
    /\ ~aborted
    /\ threads.pc = "store"
    /\ LET out == Store(buckets, count, bucket_ns, unwrap(threads.data))
       IN /\ buckets' = out.buckets
          /\ count' = out.count
          /\ aborted' = out.panicked
    /\ threads' = CounterIdle
    /\ UNCHANGED CallRecord
    /\ CounterFrame

CounterNext ==
    \/ \E ts \in Timestamps : CounterInsertBegin(ts)
    \/ \E time \in Timestamps : CounterRemoveBegin(time)
    \/ CounterPop
    \/ CounterPopSub
    \/ CounterPurge
    \/ CounterPurgeSub
    \/ CounterPush
    \/ CounterStore

SpecCounter == CounterInit /\ [][CounterNext]_vars

----------------------------------------------------------------------------
(* Reference notions the properties are stated with. *)

\* The samples the ring retains, as (bucket, position) pairs.
Retained ==
    UNION {{<<i, j>> : j \in DOMAIN buckets[i].entries} : i \in DOMAIN buckets}

EntryAt(p) == buckets[p[1]].entries[p[2]]

\* The retained samples with start_time <= ts <= end_time.
RetainedIn(start_time, end_time) ==
    {p \in Retained : /\ start_time <= EntryAt(p).utc_epoch_ns
                      /\ EntryAt(p).utc_epoch_ns <= end_time}

RECURSIVE SumOfBucketCounts(_)
SumOfBucketCounts(bs) ==
    IF bs = <<>> THEN 0 ELSE Head(bs).count + SumOfBucketCounts(Tail(bs))

\* t lies inside the horizon the ring covers now.
InHorizon(t) ==
    /\ buckets /= <<>>
    /\ buckets[1].start_time_ns <= t
    /\ t < buckets[Len(buckets)].end_time_ns

\* A valid query range: start_time <= end_time, both inside the horizon.
ValidRange(start_time, end_time) ==
    /\ ~aborted
    /\ start_time <= end_time
    /\ InHorizon(start_time)
    /\ InHorizon(end_time)

\* The last call was an insert into a cache that already held its buckets.
InsertedInitialized == op = "insert" /\ pre_start /= None

\* The horizon of the cache when the last call began: N buckets of width W
\* from pre_start on.
PreHorizonEnd == unwrap(pre_start) + num_buckets * bucket_ns

\* Some retained sample has timestamp ts.
Stored(ts) == \E p \in Retained : EntryAt(p).utc_epoch_ns = ts

RECURSIVE AllEntries(_)
\* The samples of the buckets bs, in ring order.
AllEntries(bs) ==
    IF bs = <<>> THEN <<>> ELSE Head(bs).entries \o AllEntries(Tail(bs))

\* The samples of a sequence with ts > t, ts >= t, ts <= t.
After(entries, t) == SelectSeq(entries, LAMBDA e : e.utc_epoch_ns > t)
From(entries, t) == SelectSeq(entries, LAMBDA e : e.utc_epoch_ns >= t)
UpTo(entries, t) == SelectSeq(entries, LAMBDA e : e.utc_epoch_ns <= t)

\* x is the least / the greatest spread of the non-empty sequence entries.
LeastSpread(x, entries) ==
    /\ \E i \in DOMAIN entries : entries[i].spread = x
    /\ \A i \in DOMAIN entries : x <= entries[i].spread
GreatestSpread(x, entries) ==
    /\ \E i \in DOMAIN entries : entries[i].spread = x
    /\ \A i \in DOMAIN entries : x >= entries[i].spread

\* s is a permutation of t in ascending order.
SortedOf(s, t) ==
    /\ Len(s) = Len(t)
    /\ \A i \in 1..(Len(s) - 1) : s[i] <= s[i + 1]
    /\ \A x \in Range(s) \cup Range(t) :
          Cardinality({i \in DOMAIN s : s[i] = x})
              = Cardinality({i \in DOMAIN t : t[i] = x})

----------------------------------------------------------------------------
(* Properties *)

\* C1: an insert into an initialized cache of a sample older than
\* buckets[0].start_ns is dropped and leaves count() as it was.
C1_TooOldKeepsCount ==
    (InsertedInitialized /\ arg < unwrap(pre_start)) => count = pre_count

\* C2: while the cache is initialized, count() equals the sum of bucket.count
\* over the buckets of the ring.
C2_CountIsSumOfBuckets ==
    (~aborted /\ buckets /= <<>>) => count = SumOfBucketCounts(buckets)

\* C3: an insert at or beyond the end of the horizon (idx >= N), however far
\* ahead, completes without a panic and leaves the sample stored in the ring.
C3_TooNewSlides ==
    (InsertedInitialized /\ arg >= PreHorizonEnd) => (~aborted /\ Stored(arg))

\* C4: after scenario 6, count() = 1, buckets[0].start_ns = 1000 and
\* count_range(1000, 1000) = 1.
C4_Scenario6Result ==
    Scenario6Done =>
        /\ ~aborted
        /\ count = 1
        /\ buckets /= <<>>
        /\ buckets[1].start_time_ns = 1000
        /\ RangeIdx(1000, 1000) /= None
        /\ count_range(1000, 1000) = 1

\* C5: for every valid range, count_range(start, end) is the number of
\* retained samples with start <= ts <= end.
C5_CountRangeExact ==
    \A s \in Timestamps, e \in Timestamps :
        ValidRange(s, e) => count_range(s, e) = Cardinality(RetainedIn(s, e))

\* C6: for t1 < tm < t2 inside the horizon,
\* count_range(t1, tm - 1) + count_range(tm, t2) = count_range(t1, t2).
C6_CountRangeAdditive ==
    \A t1 \in Timestamps, tm \in Timestamps, t2 \in Timestamps :
        (t1 < tm /\ tm < t2 /\ ValidRange(t1, t2)) =>
            count_range(t1, tm - 1) + count_range(tm, t2) = count_range(t1, t2)

\* C7: for every valid range that holds a retained sample, min_spread and
\* max_spread are the least and the greatest spread of the retained samples
\* with start <= ts <= end.
C7_MinMaxExact ==
    \A s \in Timestamps, e \in Timestamps :
        (ValidRange(s, e) /\ RetainedIn(s, e) /= {}) =>
            LET spreads == {EntryAt(p).spread : p \in RetainedIn(s, e)}
            IN /\ min_spread(s, e) \in spreads
               /\ max_spread(s, e) \in spreads
               /\ \A x \in spreads : min_spread(s, e) <= x /\ x <= max_spread(s, e)

\* C8: after an insert with a timestamp inside the horizon, count() is one
\* more than before and count_range(ts, ts) >= 1.
C8_InsertInHorizon ==
    (InsertedInitialized /\ unwrap(pre_start) <= arg /\ arg < PreHorizonEnd) =>
        /\ ~aborted
        /\ count = pre_count + 1
        /\ RangeIdx(arg, arg) /= None
        /\ count_range(arg, arg) >= 1

\* C8 witness: an in-horizon insert that arrived after a sample with a later
\* timestamp had been stored.
C8_Witness ==
    /\ InsertedInitialized /\ unwrap(pre_start) <= arg /\ arg < PreHorizonEnd
    /\ ~aborted
    /\ \E p \in Retained : EntryAt(p).utc_epoch_ns > arg

\* C9: every bucket is W wide and starts at a multiple of W, and every bucket
\* starts where the one before it ends.
C9_RingGeometry ==
    /\ \A i \in DOMAIN buckets :
          /\ buckets[i].end_time_ns - buckets[i].start_time_ns = bucket_ns
          /\ buckets[i].start_time_ns % bucket_ns = 0
    /\ \A i \in 1..(Len(buckets) - 1) :
          buckets[i].end_time_ns = buckets[i + 1].start_time_ns

\* C9 witness: an insert has slid the window and refilled the ring.
C9_Witness ==
    /\ InsertedInitialized /\ ~aborted
    /\ Len(buckets) > 1
    /\ buckets[1].start_time_ns > unwrap(pre_start)
    /\ Stored(arg)

\* C10: once the first insert has initialized the cache, the ring holds
\* exactly N buckets after every insert and every remove_up_to(t), whatever t.
C10_AlwaysNBuckets ==
    (op = "insert" \/ pre_start /= None) => Len(buckets) = num_buckets

\* C11: a step of remove_up_to(t) on a cache holding its buckets, with t inside
\* the horizon, leaves exactly the samples with ts > t (in their order), returns
\* the number of samples removed and lowers count by that number; with
\* t < buckets[0].start_time_ns it returns 0 and leaves buckets and count as
\* they were.
C11_RemoveUpToExact ==
    [][(op' = "remove_up_to" /\ ~aborted /\ buckets /= <<>>) =>
        /\ InHorizon(arg') =>
              /\ ~aborted'
              /\ AllEntries(buckets') = After(AllEntries(buckets), arg')
              /\ ret' = Len(AllEntries(buckets)) - Len(AllEntries(buckets'))
              /\ count' = count - ret'
        /\ arg' < buckets[1].start_time_ns =>
              /\ ~aborted'
              /\ ret' = 0
              /\ buckets' = buckets
              /\ count' = count]_vars

\* A remove_up_to inside the horizon has popped a bucket, removed a sample and
\* kept another.
C11_Witness ==
    /\ op = "remove_up_to" /\ ~aborted /\ pre_start /= None
    /\ unwrap(pre_start) <= arg /\ arg < PreHorizonEnd
    /\ buckets[1].start_time_ns > unwrap(pre_start)
    /\ ret > 0
    /\ Retained /= {}

\* C12: before the first insert the ring holds no buckets; the first insert,
\* of timestamp t, leaves exactly num_buckets buckets, bucket i covering
\* [base + i * W, base + (i + 1) * W) with base = floor(t / W) * W, the sample
\* alone in bucket 0, and count = 1.
C12_FirstInsertMaterializes ==
    /\ (pre_start = None /\ op /= "insert") => buckets = <<>>
    /\ (op = "insert" /\ pre_start = None) =>
          LET base == (arg \div bucket_ns) * bucket_ns
          IN /\ ~aborted
             /\ Len(buckets) = num_buckets
             /\ \A i \in 1..num_buckets :
                   /\ buckets[i].start_time_ns = base + (i - 1) * bucket_ns
                   /\ buckets[i].end_time_ns = base + i * bucket_ns
                   /\ i > 1 => buckets[i].entries = <<>>
             /\ Len(buckets[1].entries) = 1
             /\ buckets[1].entries[1].utc_epoch_ns = arg
             /\ count = 1

\* The first insert had a timestamp off the bucket grid, into a ring of
\* several buckets.
C12_Witness ==
    /\ op = "insert" /\ pre_start = None
    /\ arg % bucket_ns /= 0
    /\ num_buckets > 1

\* C13: for every valid range, count_range(t1, t2) <= count().
C13_CountRangeAtMostCount ==
    \A s \in Timestamps : \A e \in s..MaxTs :
        ValidRange(s, e) => count_range(s, e) <= count

\* A range over several buckets counts every sample of a cache holding
\* more than one.
C13_Witness ==
    \E s \in Timestamps, e \in Timestamps :
        /\ ValidRange(s, e)
        /\ unwrap(RangeIdx(s, e)).start_idx < unwrap(RangeIdx(s, e)).end_idx
        /\ count > 1
        /\ count_range(s, e) = count

\* C14: for every valid range with count_range(t1, t2) > 0,
\* min_spread(t1, t2) <= max_spread(t1, t2).
C14_MinAtMostMax ==
    \A s \in Timestamps : \A e \in s..MaxTs :
        (ValidRange(s, e) /\ count_range(s, e) > 0)
            => min_spread(s, e) <= max_spread(s, e)

\* A range over several buckets holds samples of different spreads.
C14_Witness ==
    \E s \in Timestamps, e \in Timestamps :
        /\ ValidRange(s, e)
        /\ unwrap(RangeIdx(s, e)).start_idx < unwrap(RangeIdx(s, e)).end_idx
        /\ count_range(s, e) > 0
        /\ min_spread(s, e) < max_spread(s, e)

\* C15: Bucket::insert returns true iff start_time_ns <= ts < end_time_ns; an
\* accepted sample is appended, count grows by one, min_spread / max_spread
\* take the sample's spread in, the sketch is absent; a rejected sample leaves
\* every field as it was.
C15_BucketInsert ==
    (op = "Bucket::insert") =>
        LET accepted == /\ pre_bucket.start_time_ns <= arg.utc_epoch_ns
                        /\ arg.utc_epoch_ns < pre_bucket.end_time_ns
        IN /\ ret = accepted
           /\ accepted =>
                 /\ bucket.entries = pre_bucket.entries \o <<arg>>
                 /\ bucket.count = pre_bucket.count + 1
                 /\ LeastSpread(bucket.min_spread, bucket.entries)
                 /\ GreatestSpread(bucket.max_spread, bucket.entries)
                 /\ ~bucket.tdigest.present
                 /\ bucket.start_time_ns = pre_bucket.start_time_ns
                 /\ bucket.end_time_ns = pre_bucket.end_time_ns
           /\ ~accepted => bucket = pre_bucket

\* An insert was accepted by a bucket that held a sample and a sketch.
C15_Witness ==
    /\ op = "Bucket::insert" /\ ret = TRUE
    /\ pre_bucket.count > 0
    /\ pre_bucket.tdigest.present

\* C16: Bucket::remove_up_to(threshold) returns 0 and changes nothing when
\* threshold < start_time_ns or threshold > end_time_ns; otherwise it keeps
\* exactly the samples with ts > threshold, count is their number, min_spread
\* and max_spread are recomputed from them (the sentinels if none is left),
\* the sketch is absent and the number removed is returned.
C16_BucketRemoveUpTo ==
    (op = "Bucket::remove_up_to") =>
        IF arg < pre_bucket.start_time_ns \/ arg > pre_bucket.end_time_ns
        THEN ret = 0 /\ bucket = pre_bucket
        ELSE LET kept == After(pre_bucket.entries, arg)
             IN /\ bucket.entries = kept
                /\ bucket.count = Len(kept)
                /\ kept = <<>> => /\ bucket.min_spread = F64_MAX
                                  /\ bucket.max_spread = -F64_MAX
                /\ kept /= <<>> => /\ LeastSpread(bucket.min_spread, kept)
                                   /\ GreatestSpread(bucket.max_spread, kept)
                /\ ~bucket.tdigest.present
                /\ ret = Len(pre_bucket.entries) - Len(kept)
                /\ bucket.start_time_ns = pre_bucket.start_time_ns
                /\ bucket.end_time_ns = pre_bucket.end_time_ns

\* A remove_up_to removed the sample of least spread from a bucket that held
\* a sketch, and kept another sample.
C16_Witness ==
    /\ op = "Bucket::remove_up_to" /\ ret > 0
    /\ bucket.count > 0
    /\ pre_bucket.tdigest.present
    /\ bucket.min_spread > pre_bucket.min_spread

\* What a scan with threshold t returns if the bucket is taken to span the
\* thresholds of the set inside: the samples selected, or nothing.
ScansAgree(inside) ==
    /\ (op = "Bucket::get_start_from") =>
          ret = IF arg \in inside THEN From(bucket.entries, arg) ELSE <<>>
    /\ (op = "Bucket::count_start_from") =>
          ret = IF arg \in inside THEN Len(From(bucket.entries, arg)) ELSE 0
    /\ (op = "Bucket::get_end_before") =>
          ret = IF arg \in inside THEN UpTo(bucket.entries, arg) ELSE <<>>
    /\ (op = "Bucket::count_end_before") =>
          ret = IF arg \in inside THEN Len(UpTo(bucket.entries, arg)) ELSE 0

\* C17 as stated: the scans return the samples with ts >= t (ts <= t) for t in
\* [start_time_ns, end_time_ns) and nothing for every other t, t = end_time_ns
\* included.
C17_ScansHalfOpen ==
    ScansAgree(bucket.start_time_ns .. (bucket.end_time_ns - 1))

\* C17: the scans return the samples with ts >= t (ts <= t) for t in
\* [start_time_ns, end_time_ns], and nothing for t < start_time_ns and for
\* t > end_time_ns; get_end_before(end_time_ns) returns every sample.
C17_ScansClosed ==
    /\ ScansAgree(bucket.start_time_ns .. bucket.end_time_ns)
    /\ (op = "Bucket::get_end_before" /\ arg = bucket.end_time_ns) =>
          ret = bucket.entries

\* get_end_before(end_time_ns) returned the samples of a non-empty bucket.
C17_Witness ==
    /\ op = "Bucket::get_end_before"
    /\ arg = bucket.end_time_ns
    /\ ret /= <<>>

\* C18: in a bucket made by Bucket::new and changed by insert and
\* remove_up_to only, every sample has start_time_ns <= ts < end_time_ns,
\* count = len(entries), and min_spread <= max_spread iff count > 0.
C18_BucketInvariant ==
    (bucket /= None) =>
        /\ \A i \in DOMAIN bucket.entries :
              /\ bucket.start_time_ns <= bucket.entries[i].utc_epoch_ns
              /\ bucket.entries[i].utc_epoch_ns < bucket.end_time_ns
        /\ bucket.count = Len(bucket.entries)
        /\ (bucket.min_spread <= bucket.max_spread) <=> (bucket.count > 0)

\* A remove_up_to has emptied a bucket.
C18_Witness ==
    /\ op = "Bucket::remove_up_to" /\ ret > 0
    /\ bucket.count = 0
    /\ bucket.min_spread > bucket.max_spread

\* C19: a sketch that is present was built from exactly the current entries;
\* get_tdigest returns the stored sketch if there is one and else builds,
\* stores and returns it; an accepted insert and an in-range remove_up_to
\* leave the sketch absent.
C19_SketchCurrent ==
    /\ bucket.tdigest.present =>
          SortedOf(bucket.tdigest.spreads, SpreadsOf(bucket.entries))
    /\ (op = "Bucket::get_tdigest") =>
          /\ bucket.tdigest.present
          /\ ret = bucket.tdigest.spreads
          /\ pre_bucket.tdigest.present => bucket = pre_bucket
          /\ bucket.entries = pre_bucket.entries
    /\ (op = "Bucket::insert" /\ ret = TRUE) => ~bucket.tdigest.present
    /\ (/\ op = "Bucket::remove_up_to"
        /\ pre_bucket.start_time_ns <= arg
        /\ arg <= pre_bucket.end_time_ns) => ~bucket.tdigest.present

\* get_tdigest returned the stored sketch of two samples inserted in
\* descending order of spread.
C19_Witness ==
    /\ op = "Bucket::get_tdigest"
    /\ pre_bucket.tdigest.present
    /\ Len(ret) > 1
    /\ ret /= SpreadsOf(bucket.entries)

\* C20 as stated: once every writer has inserted (timestamps inside the
\* horizon or sliding it), count() equals the number of inserts that stored
\* their sample.
C20_FinalCountIsStored ==
    (writers.pending = {} /\ ~aborted) => count = writers.stored

\* C20: once every writer has inserted, all timestamps lying inside the
\* horizon the cache had when they started (none slides it), count() equals
\* the count before plus the number of writers, and every insert has stored
\* its sample.
C20_FinalCountInHorizon ==
    (/\ writers.pending = {}
     /\ \A ts \in writers.done : ts < writers.horizon_end) =>
        /\ ~aborted
        /\ count = 1 + Cardinality(writers.done)
        /\ count = writers.stored
        /\ \A ts \in writers.done : Stored(ts)

\* Several writers have inserted inside the horizon and the reader has
\* read the final count.
C20_Witness ==
    /\ writers.pending = {}
    /\ Cardinality(writers.done) > 1
    /\ \A ts \in writers.done : ts < writers.horizon_end
    /\ op = "count"
    /\ ret = 1 + Cardinality(writers.done)

\* The steps of the writer thread make of the cache what insert, taken as one
\* step, makes of it.
SlideStepsAreInsert ==
    (threads.expected /= None /\ threads.rpc /= "panicked") =>
        LET whole == unwrap(threads.expected)
        IN /\ (threads.wpc = "idle") =>
                 /\ buckets = whole.buckets
                 /\ count = whole.count
                 /\ aborted = whole.panicked
           /\ aborted =>
                 /\ whole.panicked
                 /\ buckets = whole.buckets
                 /\ count = whole.count

\* C21: a count_range that has computed its indices and is reading buckets
\* reads a ring of num_buckets buckets whose buckets[0].start_time_ns is the
\* one the indices were computed from; while an insert is between the steps
\* of its slide no count_range is under way.
C21_NoPartialSlideSeen ==
    /\ (threads.rpc \in {"head", "mid", "tail"}) =>
          /\ Len(buckets) = num_buckets
          /\ buckets[1].start_time_ns = threads.rbase
    /\ (threads.wpc \in {"pop", "purge", "push"}) => threads.rpc = "idle"

\* An insert is in the middle of its slide: head buckets are popped, the
\* tail is not yet refilled.
C21_Witness ==
    /\ threads.wpc = "push"
    /\ ~aborted
    /\ Len(buckets) < num_buckets
    /\ threads.rpc = "idle"

\* C22: two readers calling get_tdigest on one bucket under its read lock:
\* neither fails, and at most one of them holds the sketch cell mutably at a
\* time.
C22_ConcurrentSketchSafe ==
    /\ ~aborted
    /\ Cardinality({r \in SketchReaders : threads.pc[r] \in {"held", "store", "drop"}}) <= 1

\* C23: remove_up_to, count_range, min_spread and max_spread called on a
\* cache that has admitted no sample yet return normally and leave the cache
\* as new built it.
C23_EmptyCacheCallsReturn ==
    (pre_start = None /\ op \in {"remove_up_to", "count_range", "min_spread", "max_spread"}) =>
        /\ ~aborted
        /\ ret = 0
        /\ buckets = <<>>
        /\ count = 0

C26_SlideLandsOnLastBucket ==
    (InsertedInitialized /\ arg >= PreHorizonEnd) =>
        LET idx == (arg - unwrap(pre_start)) \div bucket_ns
            new_start == unwrap(pre_start) + (idx + 1) * bucket_ns
                            - num_buckets * bucket_ns
        IN /\ ~aborted
           /\ buckets[1].start_time_ns = new_start
           /\ find_bucket_index(new_start, arg, bucket_ns) = Some(num_buckets - 1)
           /\ buckets[num_buckets].start_time_ns <= arg
           /\ arg < buckets[num_buckets].end_time_ns

C28_TooOldChangesNoBucket ==
    [][(/\ op' = "insert" /\ ~aborted
        /\ buckets /= <<>>
        /\ arg' < buckets[1].start_time_ns) =>
        (~aborted' /\ buckets' = buckets)]_vars

\* C28 witness: a too-old insert was made on a ring that retains a sample
\* and holds a built sketch.
C28_Witness ==
    /\ op = "insert" /\ ~aborted
    /\ pre_start /= None
    /\ arg < unwrap(pre_start)
    /\ Retained /= {}
    /\ buckets[1].start_time_ns = unwrap(pre_start)
    /\ \E i \in DOMAIN buckets : buckets[i].tdigest.present

\* C29: the sketches spread_percentiles merges are, in this order: one of the
\* head bucket's samples with ts >= start_time iff there is such a sample; one
\* of each interior bucket; and one of the tail bucket's samples with
\* ts <= end_time iff the tail bucket is not the head bucket and there is such
\* a sample. An endpoint scan that matched nothing contributes no sketch.
C29_EndpointSketchIffMatched ==
    (op = "spread_percentiles" /\ ~aborted) =>
        LET first == buckets[1].start_time_ns
            s == ((arg.start_time - first) \div bucket_ns) + 1
            e == ((arg.end_time - first) \div bucket_ns) + 1
            head == From(buckets[s].entries, arg.start_time)
            tail == UpTo(buckets[e].entries, arg.end_time)
            h == IF head /= <<>> THEN 1 ELSE 0
            n == IF e - s - 1 > 0 THEN e - s - 1 ELSE 0
            t == IF s /= e /\ tail /= <<>> THEN 1 ELSE 0
        IN /\ Len(ret) = h + n + t
           /\ h = 1 => SortedOf(ret[1], SpreadsOf(head))
           /\ \A k \in 1..n : SortedOf(ret[h + k], SpreadsOf(buckets[s + k].entries))
           /\ t = 1 => SortedOf(ret[h + n + 1], SpreadsOf(tail))

\* C29 witness: a spread_percentiles over three buckets whose head scan
\* matched a sample and whose tail scan matched none, though the tail bucket
\* holds a sample.
C29_Witness ==
    /\ op = "spread_percentiles" /\ ~aborted
    /\ Len(buckets) >= 3
    /\ arg.start_time < buckets[1].end_time_ns
    /\ arg.end_time >= buckets[3].start_time_ns
    /\ arg.end_time < buckets[3].end_time_ns
    /\ From(buckets[1].entries, arg.start_time) /= <<>>
    /\ buckets[3].entries /= <<>>
    /\ UpTo(buckets[3].entries, arg.end_time) = <<>>
    /\ Len(ret) = 2

\* C30: count_range, min_spread and max_spread computed with the parallel
\* fan-out over the interior buckets, in whatever order the tasks run and
\* their results are reduced, return what the sequential pass over the
\* interior buckets in index order returns on the same cache.
C30_FanOutIsSequential ==
    (op \in FanOutQueries /\ ~aborted /\ threads.pc = "idle") =>
        ret = CASE op = "count_range" -> count_range(arg.start_time, arg.end_time)
                [] op = "min_spread" -> min_spread(arg.start_time, arg.end_time)
                [] op = "max_spread" -> max_spread(arg.start_time, arg.end_time)

\* C30 witness: a min_spread over two interior buckets holding samples of
\* different spreads has returned, the later bucket having the smaller one.
C30_Witness ==
    /\ op = "min_spread" /\ ~aborted /\ threads.pc = "idle"
    /\ LET ix == unwrap(RangeIdx(arg.start_time, arg.end_time))
       IN /\ ix.end_idx - ix.start_idx = 3
          /\ buckets[ix.start_idx + 2].count > 0
          /\ buckets[ix.start_idx + 3].count > 0
          /\ buckets[ix.start_idx + 3].min_spread < buckets[ix.start_idx + 2].min_spread
          /\ ret = buckets[ix.start_idx + 3].min_spread

\* Every step of a writer's call taken together is the call: the plan of
\* sections panics exactly when the call does.
LockPlansAgree ==
    /\ \A ts \in Timestamps :
          buckets /= <<>> =>
             InsertPlan(buckets, num_buckets, bucket_ns, ts).panics
                = insert(buckets, count, num_buckets, bucket_ns,
                         [utc_epoch_ns |-> ts, spread |-> 1]).panicked
    /\ \A time \in Timestamps :
          RemovePlan(buckets, num_buckets, bucket_ns, time).panics
             = remove_up_to(buckets, count, num_buckets, bucket_ns, time).panicked

\* C31 as claimed: no operation holds more than one bucket lock at the same
\* time (the locks held by the tasks of a query are held by the query).
C31_OneLockPerOperation ==
    \A l1, l2 \in threads.held :
        l1.owner.thread = l2.owner.thread => l1 = l2

\* C31: no thread working on an operation (the caller, or a task of the
\* parallel iterator of a query) holds more than one bucket lock at the same
\* time, and no thread about to take a bucket lock finds it unavailable: no
\* interleaving of the operations blocks on a bucket lock.
C31_OneLockPerThread ==
    /\ \A l1, l2 \in threads.held : l1.owner = l2.owner => l1 = l2
    /\ (threads.w.pc = "run" /\ ~threads.w.holding /\ threads.w.sections /= <<>>) =>
          Available(threads.held, Head(threads.w.sections))
    /\ \A x \in LockReaders :
          LET rd == threads.r[x]
          IN (rd.pc = "run" /\ ~rd.holding) =>
                /\ NextSection(rd) /= <<>> => Available(threads.held, NextSection(rd)[1])
                /\ rd.pre = <<>> =>
                      \A b \in rd.tasks :
                          Available(threads.held, [bucket |-> b, mode |-> "read"])

\* C31 witness: two tasks of one query hold the read locks of two buckets
\* while the other reader holds the read lock of one of the two.
C31_Witness ==
    \E x, y \in LockReaders :
        /\ x /= y
        /\ Cardinality(threads.r[x].running) = 2
        /\ \E l \in threads.held :
              l.owner.thread = y /\ l.bucket \in threads.r[x].running

\* C32: at every step of insert and remove_up_to the counter is at least the
\* sum of the counts of the buckets in the ring, and a fetch_sub about to be
\* made subtracts no more than the counter holds: it never wraps around.
C32_CounterNeverUnderflows ==
    /\ count >= SumOfBucketCounts(buckets)
    /\ (threads.pc \in {"pop_sub", "purge_sub"}) =>
          threads.pending + SumOfBucketCounts(buckets) <= count

\* C32 witness: in a slide, a bucket holding a sample has left the ring and
\* its count is about to leave the counter, which counts the sample being
\* inserted already.
C32_Witness ==
    /\ threads.pc = "pop_sub"
    /\ threads.call = "insert"
    /\ threads.pending > 0
    /\ count = threads.pending + SumOfBucketCounts(buckets) + 1

\* C33: a step of remove_up_to(t) made right after a remove_up_to(t) with the
\* same t that returned (t was below the end of the horizon) returns 0 and
\* leaves the ring, with every bucket's boundaries, entries and aggregates,
\* and the counter as they were.
C33_RemoveUpToIdempotent ==
    [][(/\ op = "remove_up_to" /\ ~aborted
        /\ op' = "remove_up_to" /\ arg' = arg) =>
        (/\ ~aborted'
         /\ ret' = 0
         /\ buckets' = buckets
         /\ count' = count)]_vars

\* C33 witness: a remove_up_to(t) with t at or after the start of the ring,
\* as it is when the call is repeated, has returned 0 and left the start of
\* the ring and the counter as they were, the ring retaining a sample.
C33_Witness ==
    /\ op = "remove_up_to" /\ ~aborted
    /\ ret = 0
    /\ pre_count = count
    /\ pre_start = Some(buckets[1].start_time_ns)
    /\ buckets[1].start_time_ns <= arg
    /\ Retained /= {}

\* C34: every bucket of the ring that holds samples stores as min_spread and
\* max_spread the least and the greatest spread of its entries, and every
\* bucket that holds none stores the sentinels f64::MAX and -f64::MAX.
C34_BucketExtremaExact ==
    \A i \in DOMAIN buckets :
        IF buckets[i].entries = <<>>
        THEN /\ buckets[i].min_spread = F64_MAX
             /\ buckets[i].max_spread = -F64_MAX
        ELSE /\ LeastSpread(buckets[i].min_spread, buckets[i].entries)
             /\ GreatestSpread(buckets[i].max_spread, buckets[i].entries)

\* C34 witness: a remove_up_to has purged the head bucket of a sample and
\* left it another, its extrema recomputed from the survivor.
C34_Witness ==
    /\ op = "remove_up_to" /\ ~aborted
    /\ ret > 0
    /\ pre_start = Some(buckets[1].start_time_ns)
    /\ buckets[1].entries /= <<>>

\* C35: for every query time, find_bucket_index on the ring's first start and
\* width returns None exactly when the query precedes that start, and
\* otherwise Some(i) with i the whole number of widths between the start and
\* the query; when the ring's buckets are contiguous and one width wide and
\* i is below their number, bucket i is the only bucket whose half-open
\* range holds the query.
C35_FindBucketIndexUnique ==
    buckets /= <<>> =>
      \A query \in Timestamps :
        LET first_start == buckets[1].start_time_ns
            found == find_bucket_index(first_start, query, bucket_ns)
            contiguous ==
                \A j \in DOMAIN buckets :
                    /\ buckets[j].end_time_ns = buckets[j].start_time_ns + bucket_ns
                    /\ j > 1 => buckets[j].start_time_ns = buckets[j - 1].end_time_ns
        IN  /\ (found = None) <=> (query < first_start)
            /\ found /= None =>
                 /\ Len(found) = 1
                 /\ unwrap(found) \in Nat
                 /\ unwrap(found) * bucket_ns <= query - first_start
                 /\ query - first_start < (unwrap(found) + 1) * bucket_ns
            /\ (found /= None /\ contiguous /\ unwrap(found) < Len(buckets)) =>
                 \A j \in DOMAIN buckets :
                     (/\ buckets[j].start_time_ns <= query
                      /\ query < buckets[j].end_time_ns) <=> (j = unwrap(found) + 1)

\* C35 witness: a ring of several contiguous buckets that has slid off zero,
\* with one query time before its first start, one inside a later bucket at
\* a time that is not that bucket's start, and one past its last bucket.
C35_Witness ==
    /\ ~aborted /\ Len(buckets) > 1
    /\ buckets[1].start_time_ns > 0
    /\ \A j \in DOMAIN buckets :
           /\ buckets[j].end_time_ns = buckets[j].start_time_ns + bucket_ns
           /\ j > 1 => buckets[j].start_time_ns = buckets[j - 1].end_time_ns
    /\ find_bucket_index(buckets[1].start_time_ns, 0, bucket_ns) = None
    /\ \E query \in Timestamps, j \in 2..Len(buckets) :
           /\ find_bucket_index(buckets[1].start_time_ns, query, bucket_ns) = Some(j - 1)
           /\ buckets[j].start_time_ns < query
    /\ \E query \in Timestamps :
           find_bucket_index(buckets[1].start_time_ns, query, bucket_ns) = Some(Len(buckets))

====
